---------------------------- MODULE Spec2Model ----------------------------
(***************************************************************************)
(* A model of the RMACD policy decision engine: PolicyEvaluator of         *)
(* sdk/python/rmacd/evaluator.py over the profile data model of            *)
(* sdk/python/rmacd/models.py.                                             *)
(*                                                                         *)
(* An optional value (Python's `X | None') is a sequence of length at most *)
(* one: None is <<>> and a present value v is <<v>>.  Lists that the code  *)
(* only tests for membership are sets; lists whose order is observable     *)
(* (constraints_applied) are sequences.  Enum members are their string     *)
(* codes, the wire vocabulary of the profiles.                             *)
(***************************************************************************)
EXTENDS Integers, Sequences, FiniteSets, TLC

VARIABLES profile, pc, call, result, frames, seen, registry

vars == <<profile, pc, call, result, frames, seen, registry>>

-----------------------------------------------------------------------------
(* Optional values and Python truthiness *)

None == <<>>

Some(v) == <<v>>

IsSet(o) == o # None

Get(o) == o[1]

\* `if x:' for an optional list or set: present and non-empty
TruthySet(o) == IsSet(o) /\ Get(o) # {}

\* `if x:' for an optional dict: present and with at least one key
TruthyDict(o) == IsSet(o) /\ DOMAIN Get(o) # {}

\* Faulty variant: a missing key stands for every operation
DictGet_MissingGrantsAll(d, key) ==
    IF key \in DOMAIN d THEN d[key] ELSE {"R", "M", "A", "C", "D"}

\* dict.get(key, []) for a dict whose values are lists used as sets
DictGet(d, key) == IF key \in DOMAIN d THEN d[key] ELSE {}

-----------------------------------------------------------------------------
(* Enumerations of models.py *)

Operation == {"R", "M", "A", "C", "D"}

DataClassification == {"public", "internal", "confidential", "restricted"}

AutonomyLevel ==
    {"autonomous", "logged", "notification", "approval", "elevated_approval",
     "prohibited"}

Environment ==
    {"development", "staging", "production", "disaster-recovery", "sandbox"}

TriggerCondition ==
    {"soc_declared_incident", "automated_threat_detection",
     "business_continuity_event", "compliance_emergency",
     "manual_authorization"}

\* Operation(s), DataClassification(s): coercion of a string code to the enum;
\* a string that is not a member's value raises ValueError
\* Faulty variant: the code matched without regard to case
IsOperation_CaseFolded(s) == s \in Operation \cup {"r", "m", "a", "c", "d"}

IsOperation(s) == s \in Operation

IsDataClassification(s) == s \in DataClassification

-----------------------------------------------------------------------------
(* Default autonomy tables *)

DEFAULT_AUTONOMY_3D ==
    [public |->
        [R |-> "autonomous", M |-> "logged", A |-> "notification",
         C |-> "notification", D |-> "approval"],
     internal |->
        [R |-> "logged", M |-> "notification", A |-> "approval",
         C |-> "approval", D |-> "elevated_approval"],
     confidential |->
        [R |-> "notification", M |-> "approval", A |-> "elevated_approval",
         C |-> "elevated_approval", D |-> "prohibited"],
     restricted |->
        [R |-> "approval", M |-> "elevated_approval", A |-> "prohibited",
         C |-> "prohibited", D |-> "prohibited"]]

DEFAULT_AUTONOMY_2D ==
    [R |-> "logged", M |-> "notification", A |-> "approval",
     C |-> "approval", D |-> "elevated_approval"]

\* index = restrictiveness, higher = more restrictive
AUTONOMY_ORDER ==
    <<"autonomous", "logged", "notification", "approval",
      "elevated_approval", "prohibited">>

-----------------------------------------------------------------------------
(* Calendar arithmetic standing for datetime / zoneinfo.  A timestamp is an  *)
(* aware UTC instant [day, minute, second]: day counts days from 2024-01-01  *)
(* (a Monday), minute is the minute of that day, second the second of that   *)
(* minute.                                                                   *)

Digit == <<"0", "1", "2", "3", "4", "5", "6", "7", "8", "9">>

\* two-digit, zero-padded decimal of n in 0..99
TwoDigits(n) == Digit[(n \div 10) + 1] \o Digit[(n % 10) + 1]

WeekdayName ==
    <<"monday", "tuesday", "wednesday", "thursday", "friday", "saturday",
      "sunday">>

\* ZoneInfo(name): the zone's UTC offset in minutes in January 2024
ZoneOffset(name) ==
    CASE name = "UTC" -> 0
      [] name = "Asia/Tokyo" -> 540
      [] name = "America/New_York" -> -300

\* timestamp.astimezone(tz): the local [day, minute]
AsTimezone(timestamp, tzname) ==
    LET total == timestamp.day * 1440 + timestamp.minute + ZoneOffset(tzname)
    IN  [day |-> total \div 1440, minute |-> total % 1440,
         second |-> timestamp.second]

\* time(hour, minute, second), as the second of the day; times compare by it
TimeOfDay(minute, second) == minute * 60 + second

\* local_time.strftime("%A").lower()
DayName(local) == WeekdayName[(local.day % 7) + 1]

\* local_time.date().isoformat(), for the last days of 2023 and January 2024
IsoDate(local) ==
    IF local.day < 0
        THEN "2023-12-" \o TwoDigits(32 + local.day)
        ELSE "2024-01-" \o TwoDigits(local.day + 1)

\* time(int(parts[0]), int(parts[1])) of an "HH:MM" string split at ":",
\* as the minute of the day, for the bounds the profiles here use
ParseHHMM(s) ==
    CASE s = "09:00" -> 9 * 60 + 0
      [] s = "9:00" -> 9 * 60 + 0
      [] s = "17:00" -> 17 * 60 + 0
      [] s = "00:00" -> 0
      [] s = "23:59" -> 23 * 60 + 59

-----------------------------------------------------------------------------
(* PolicyDecision and EvaluationContext *)

\* PolicyDecision(**given): the fields not given take the model's defaults
PolicyDecision(given) ==
    given @@ [data_classification |-> None, blocked_reason |-> None,
              constraints_applied |-> <<>>, emergency_mode |-> FALSE]

\* autonomy in [APPROVAL, ELEVATED_APPROVAL]
RequiresApproval(autonomy) == autonomy \in {"approval", "elevated_approval"}

\* Faulty variant: the notification flag set for the notification level only
RequiresNotification_OnlyNotification(autonomy) == autonomy = "notification"

\* autonomy in [NOTIFICATION, APPROVAL, ELEVATED_APPROVAL]
RequiresNotification(autonomy) ==
    autonomy \in {"notification", "approval", "elevated_approval"}

-----------------------------------------------------------------------------
(* PolicyEvaluator._get_autonomy_level *)

\* Faulty variant: the key is built from the classification whenever one is
\* supplied, on a 2D profile too
OverrideKey_ClassifiedOn2D(p, operation, data_classification) ==
    IF IsSet(data_classification)
        THEN Get(data_classification) \o "." \o operation
        ELSE operation

\* The key an override is looked up under: "classification.operation" for a
\* 3D profile evaluated with a classification, the operation otherwise
OverrideKey(p, operation, data_classification) ==
    IF p.is3d /\ IsSet(data_classification)
        THEN Get(data_classification) \o "." \o operation
        ELSE operation

\* Faulty variant: the 2D table consulted whatever the classification
DefaultAutonomy_IgnoresClassification(p, operation, data_classification) ==
    IF operation \in DOMAIN DEFAULT_AUTONOMY_2D
        THEN DEFAULT_AUTONOMY_2D[operation]
        ELSE "approval"

DefaultAutonomy(p, operation, data_classification) ==
    IF p.is3d /\ IsSet(data_classification)
        THEN IF Get(data_classification) \in DOMAIN DEFAULT_AUTONOMY_3D
                    /\ operation
                        \in DOMAIN DEFAULT_AUTONOMY_3D[Get(data_classification)]
                THEN DEFAULT_AUTONOMY_3D[Get(data_classification)][operation]
                ELSE "prohibited"
        ELSE IF operation \in DOMAIN DEFAULT_AUTONOMY_2D
                THEN DEFAULT_AUTONOMY_2D[operation]
                ELSE "approval"

\* the index of a level in AUTONOMY_ORDER
Restrictiveness(level) ==
    CHOOSE i \in 1..Len(AUTONOMY_ORDER) : AUTONOMY_ORDER[i] = level

\* Faulty variant: an override is validated against the default ordering and
\* never lowers a cell below its default
get_autonomy_level_Clamped(p, operation, data_classification) ==
    LET key == OverrideKey(p, operation, data_classification)
        default == DefaultAutonomy(p, operation, data_classification)
    IN  IF TruthyDict(p.autonomy_overrides)
            /\ key \in DOMAIN Get(p.autonomy_overrides)
            /\ Restrictiveness(Get(p.autonomy_overrides)[key])
                    >= Restrictiveness(default)
            THEN Get(p.autonomy_overrides)[key]
            ELSE default

get_autonomy_level(p, operation, data_classification) ==
    LET key == OverrideKey(p, operation, data_classification)
    IN  IF TruthyDict(p.autonomy_overrides)
            /\ key \in DOMAIN Get(p.autonomy_overrides)
            THEN Get(p.autonomy_overrides)[key]
            ELSE DefaultAutonomy(p, operation, data_classification)

-----------------------------------------------------------------------------
(* PolicyEvaluator._check_emergency_permission *)

\* Faulty variant: the trigger is never verified
TriggerAccepted_Unchecked(escalation, context) == TRUE

\* The trigger gate: a supplied trigger must be in a non-empty allow-list
TriggerAccepted(escalation, context) ==
    ~ (/\ IsSet(context.emergency_trigger)
       /\ TruthySet(escalation.trigger_conditions)
       /\ Get(context.emergency_trigger)
            \notin Get(escalation.trigger_conditions))

\* Faulty variant: the 3D dict searched as if it were the flat 2D list, so the
\* operation is looked for among the classification keys
EscalatedPermission_FlatLookup(p, escalation, operation, data_classification) ==
    IF p.is3d /\ IsSet(data_classification)
        THEN /\ TruthyDict(escalation.escalated_permissions)
             /\ operation \in DOMAIN Get(escalation.escalated_permissions)
        ELSE /\ TruthySet(escalation.escalated_permissions)
             /\ operation \in Get(escalation.escalated_permissions)

\* operation in escalated_permissions, per shape
EscalatedPermission(p, escalation, operation, data_classification) ==
    IF p.is3d /\ IsSet(data_classification)
        THEN /\ TruthyDict(escalation.escalated_permissions)
             /\ operation
                    \in DictGet(Get(escalation.escalated_permissions),
                                Get(data_classification))
        ELSE /\ TruthySet(escalation.escalated_permissions)
             /\ operation \in Get(escalation.escalated_permissions)

check_emergency_permission(p, operation, data_classification, context) ==
    IF ~ IsSet(p.emergency_escalation)
        THEN FALSE
        ELSE LET escalation == Get(p.emergency_escalation)
             IN  /\ escalation.enabled
                 /\ TriggerAccepted(escalation, context)
                 /\ EscalatedPermission(p, escalation, operation,
                                        data_classification)

-----------------------------------------------------------------------------
(* PolicyEvaluator._check_time_windows and _check_constraints: the result is *)
(* None or the message of the first check that fails                          *)

\* Faulty variant: the end of the allowed hours is excluded
WithinAllowedHours_EndExcluded(allowed_hours, current_time) ==
    /\ TimeOfDay(ParseHHMM(allowed_hours.start), 0) <= current_time
    /\ current_time < TimeOfDay(ParseHHMM(allowed_hours.end), 0)

\* start_time <= current_time <= end_time, the bounds at second 0 of their
\* minute
WithinAllowedHours(allowed_hours, current_time) ==
    /\ TimeOfDay(ParseHHMM(allowed_hours.start), 0) <= current_time
    /\ current_time <= TimeOfDay(ParseHHMM(allowed_hours.end), 0)

\* Faulty variant: the blackout dates are checked first, before the allowed
\* days and hours
check_time_windows_BlackoutFirst(p, timestamp) ==
    IF ~ IsSet(p.constraints) \/ ~ IsSet(Get(p.constraints).time_windows)
        THEN None
        ELSE
    LET time_windows == Get(Get(p.constraints).time_windows)
        local_time   == AsTimezone(timestamp, time_windows.timezone)
        day_name     == DayName(local_time)
        current_time == TimeOfDay(local_time.minute, local_time.second)
        current_date == IsoDate(local_time)
    IN  IF /\ TruthySet(time_windows.blackout_dates)
           /\ current_date \in Get(time_windows.blackout_dates)
            THEN Some("Operations blocked on blackout date " \o current_date)
        ELSE IF /\ TruthySet(time_windows.allowed_days)
                /\ day_name \notin Get(time_windows.allowed_days)
            THEN Some("Operations not permitted on " \o day_name)
        ELSE IF /\ IsSet(time_windows.allowed_hours)
                /\ ~ WithinAllowedHours(Get(time_windows.allowed_hours),
                                        current_time)
            THEN Some("Operations only permitted between "
                        \o Get(time_windows.allowed_hours).start \o " and "
                        \o Get(time_windows.allowed_hours).end)
        ELSE None

check_time_windows(p, timestamp) ==
    IF ~ IsSet(p.constraints) \/ ~ IsSet(Get(p.constraints).time_windows)
        THEN None
        ELSE
    LET time_windows == Get(Get(p.constraints).time_windows)
        local_time   == AsTimezone(timestamp, time_windows.timezone)
        day_name     == DayName(local_time)
        current_time == TimeOfDay(local_time.minute, local_time.second)
        current_date == IsoDate(local_time)
    IN  IF /\ TruthySet(time_windows.allowed_days)
           /\ day_name \notin Get(time_windows.allowed_days)
            THEN Some("Operations not permitted on " \o day_name)
        ELSE IF /\ IsSet(time_windows.allowed_hours)
                /\ ~ WithinAllowedHours(Get(time_windows.allowed_hours),
                                        current_time)
            THEN Some("Operations only permitted between "
                        \o Get(time_windows.allowed_hours).start \o " and "
                        \o Get(time_windows.allowed_hours).end)
        ELSE IF /\ TruthySet(time_windows.blackout_dates)
                /\ current_date \in Get(time_windows.blackout_dates)
            THEN Some("Operations blocked on blackout date " \o current_date)
        ELSE None

\* Faulty variant: an empty environments list restricts like any other
EnvironmentBlocked_EmptyListBlocks(constraints, context) ==
    /\ IsSet(constraints.environments)
    /\ IsSet(context.environment)
    /\ Get(context.environment) \notin Get(constraints.environments)

\* The environment check of _check_constraints
EnvironmentBlocked(constraints, context) ==
    /\ TruthySet(constraints.environments)
    /\ IsSet(context.environment)
    /\ Get(context.environment) \notin Get(constraints.environments)

check_constraints(p, operation, context) ==
    IF ~ IsSet(p.constraints)
        THEN None
        ELSE LET constraints == Get(p.constraints)
             IN  IF EnvironmentBlocked(constraints, context)
                    THEN Some("Environment " \o Get(context.environment)
                                \o " not permitted")
                    ELSE IF IsSet(constraints.time_windows)
                            THEN check_time_windows(p, context.timestamp)
                            ELSE None

-----------------------------------------------------------------------------
(* PolicyEvaluator.evaluate *)

\* EvaluationContext(): every field at its default, the timestamp read from
\* the clock (default_factory=datetime.utcnow)
DefaultContext(now) ==
    [timestamp |-> now, environment |-> None, emergency_active |-> FALSE,
     emergency_trigger |-> None]

\* operation in the profile's granted set for the classification
HasBasePermission(p, operation, data_classification) ==
    IF p.is3d
        THEN operation \in DictGet(p.permissions, Get(data_classification))
        ELSE operation \in p.permissions

\* The emergency path: the base check failed and escalation grants it
GrantedByEscalation(p, operation, data_classification, context) ==
    /\ ~ HasBasePermission(p, operation, data_classification)
    /\ context.emergency_active
    /\ check_emergency_permission(p, operation, data_classification, context)

\* Faulty variant: in an emergency the escalation check replaces the base
\* permission check instead of following it
Permitted_EmergencyFirst(p, operation, data_classification, context) ==
    IF context.emergency_active
        THEN check_emergency_permission(p, operation, data_classification,
                                        context)
        ELSE HasBasePermission(p, operation, data_classification)

\* has_permission once the emergency path has been tried
Permitted(p, operation, data_classification, context) ==
    \/ HasBasePermission(p, operation, data_classification)
    \/ GrantedByEscalation(p, operation, data_classification, context)

\* Faulty variant: the reason does not name the operation
NotPermittedDecision_NoOperationCode(operation, data_classification, context) ==
    PolicyDecision(
        [allowed |-> FALSE, operation |-> operation,
         data_classification |-> data_classification,
         autonomy_level |-> "prohibited", requires_approval |-> FALSE,
         requires_notification |-> FALSE,
         blocked_reason |-> Some("Operation not permitted for this profile")])

NotPermittedDecision(operation, data_classification, context) ==
    PolicyDecision(
        [allowed |-> FALSE, operation |-> operation,
         data_classification |-> data_classification,
         autonomy_level |-> "prohibited", requires_approval |-> FALSE,
         requires_notification |-> FALSE,
         blocked_reason |->
            Some("Operation " \o operation
                    \o " not permitted for this profile")])

\* Faulty variant: "constraints" is not appended to constraints_applied
ConstraintBlockedDecision_ListUnchanged(operation, data_classification, context, autonomy, constraint_result, constraints_applied) ==
    PolicyDecision(
        [allowed |-> FALSE, operation |-> operation,
         data_classification |-> data_classification,
         autonomy_level |-> autonomy,
         requires_approval |-> RequiresApproval(autonomy),
         requires_notification |-> RequiresNotification(autonomy),
         blocked_reason |-> constraint_result,
         constraints_applied |-> constraints_applied,
         emergency_mode |-> context.emergency_active])

\* Faulty variant: a constraint block reported like a not-permitted denial,
\* with the autonomy level forced to prohibited
ConstraintBlockedDecision_ForcedProhibited(operation, data_classification, context, autonomy, constraint_result, constraints_applied) ==
    PolicyDecision(
        [allowed |-> FALSE, operation |-> operation,
         data_classification |-> data_classification,
         autonomy_level |-> "prohibited", requires_approval |-> FALSE,
         requires_notification |-> FALSE,
         blocked_reason |-> constraint_result,
         constraints_applied |-> Append(constraints_applied, "constraints"),
         emergency_mode |-> context.emergency_active])

ConstraintBlockedDecision(operation, data_classification, context, autonomy, constraint_result, constraints_applied) ==
    PolicyDecision(
        [allowed |-> FALSE, operation |-> operation,
         data_classification |-> data_classification,
         autonomy_level |-> autonomy,
         requires_approval |-> RequiresApproval(autonomy),
         requires_notification |-> RequiresNotification(autonomy),
         blocked_reason |-> constraint_result,
         constraints_applied |-> Append(constraints_applied, "constraints"),
         emergency_mode |-> context.emergency_active])

\* Faulty variant: the prohibited denial gives no reason
ProhibitedDecision_NoReason(operation, data_classification, context, autonomy, constraints_applied) ==
    PolicyDecision(
        [allowed |-> FALSE, operation |-> operation,
         data_classification |-> data_classification,
         autonomy_level |-> autonomy, requires_approval |-> FALSE,
         requires_notification |-> FALSE,
         constraints_applied |-> constraints_applied,
         emergency_mode |-> context.emergency_active])

\* Faulty variant: a prohibited level handled like an approval level, the
\* operation allowed subject to approval
ProhibitedDecision_AllowedWithApproval(operation, data_classification, context, autonomy, constraints_applied) ==
    PolicyDecision(
        [allowed |-> TRUE, operation |-> operation,
         data_classification |-> data_classification,
         autonomy_level |-> autonomy, requires_approval |-> TRUE,
         requires_notification |-> TRUE,
         constraints_applied |-> constraints_applied,
         emergency_mode |-> context.emergency_active])

ProhibitedDecision(operation, data_classification, context, autonomy, constraints_applied) ==
    PolicyDecision(
        [allowed |-> FALSE, operation |-> operation,
         data_classification |-> data_classification,
         autonomy_level |-> autonomy, requires_approval |-> FALSE,
         requires_notification |-> FALSE,
         blocked_reason |-> Some("Operation prohibited by autonomy policy"),
         constraints_applied |-> constraints_applied,
         emergency_mode |-> context.emergency_active])

AcceptedDecision(operation, data_classification, context, autonomy, constraints_applied) ==
    PolicyDecision(
        [allowed |-> TRUE, operation |-> operation,
         data_classification |-> data_classification,
         autonomy_level |-> autonomy,
         requires_approval |-> RequiresApproval(autonomy),
         requires_notification |-> RequiresNotification(autonomy),
         constraints_applied |-> constraints_applied,
         emergency_mode |-> context.emergency_active])

\* Faulty variant: an operation granted by escalation is accepted at once,
\* without the constraint and prohibited checks
Decide_EscalationSkipsChecks(p, operation, data_classification, context) ==
    LET base == HasBasePermission(p, operation, data_classification)
        autonomy == get_autonomy_level(p, operation, data_classification)
        constraint_result ==
            IF IsSet(p.constraints)
                THEN check_constraints(p, operation, context)
                ELSE None
    IN  IF ~ Permitted(p, operation, data_classification, context)
            THEN NotPermittedDecision(operation, data_classification, context)
        ELSE IF ~ base
            THEN AcceptedDecision(operation, data_classification, context,
                    autonomy, <<"emergency_escalation">>)
        ELSE IF IsSet(constraint_result)
            THEN ConstraintBlockedDecision(operation, data_classification,
                    context, autonomy, constraint_result, <<>>)
        ELSE IF autonomy = "prohibited"
            THEN ProhibitedDecision(operation, data_classification, context,
                    autonomy, <<>>)
        ELSE AcceptedDecision(operation, data_classification, context,
                    autonomy, <<>>)

\* Faulty variant: the prohibited check comes before the constraint check
Decide_ProhibitedFirst(p, operation, data_classification, context) ==
    LET base == HasBasePermission(p, operation, data_classification)
        constraints_applied ==
            IF base THEN <<>> ELSE <<"emergency_escalation">>
        autonomy == get_autonomy_level(p, operation, data_classification)
        constraint_result ==
            IF IsSet(p.constraints)
                THEN check_constraints(p, operation, context)
                ELSE None
    IN  IF ~ Permitted(p, operation, data_classification, context)
            THEN NotPermittedDecision(operation, data_classification, context)
        ELSE IF autonomy = "prohibited"
            THEN ProhibitedDecision(operation, data_classification, context,
                    autonomy, constraints_applied)
        ELSE IF IsSet(constraint_result)
            THEN ConstraintBlockedDecision(operation, data_classification,
                    context, autonomy, constraint_result, constraints_applied)
        ELSE AcceptedDecision(operation, data_classification, context,
                    autonomy, constraints_applied)

\* The body of evaluate after normalisation: the decision for enum inputs
Decide(p, operation, data_classification, context) ==
    LET base == HasBasePermission(p, operation, data_classification)
        constraints_applied ==
            IF base THEN <<>> ELSE <<"emergency_escalation">>
        autonomy == get_autonomy_level(p, operation, data_classification)
        constraint_result ==
            IF IsSet(p.constraints)
                THEN check_constraints(p, operation, context)
                ELSE None
    IN  IF ~ Permitted(p, operation, data_classification, context)
            THEN NotPermittedDecision(operation, data_classification, context)
        ELSE IF IsSet(constraint_result)
            THEN ConstraintBlockedDecision(operation, data_classification,
                    context, autonomy, constraint_result, constraints_applied)
        ELSE IF autonomy = "prohibited"
            THEN ProhibitedDecision(operation, data_classification, context,
                    autonomy, constraints_applied)
        ELSE AcceptedDecision(operation, data_classification, context,
                    autonomy, constraints_applied)

\* What a call gives its caller: a value, or a raised ValueError
Returned(value) == [raised |-> FALSE, value |-> Some(value), error |-> None]

Raised(message) == [raised |-> TRUE, value |-> None, error |-> Some(message)]

\* evaluate(operation, data_classification, context): context is optional and
\* `now' is what the clock reads if the default context has to be built
evaluate(p, operation, data_classification, context, now) ==
    IF ~ IsOperation(operation)
        THEN Raised("'" \o operation \o "' is not a valid Operation")
    ELSE IF IsSet(data_classification)
            /\ ~ IsDataClassification(Get(data_classification))
        THEN Raised("'" \o Get(data_classification)
                        \o "' is not a valid DataClassification")
    ELSE IF p.is3d /\ ~ IsSet(data_classification)
        THEN Raised("data_classification is required for 3D profiles")
    ELSE Returned(Decide(p, operation, data_classification,
                         IF IsSet(context) THEN Get(context)
                                           ELSE DefaultContext(Get(now))))

-----------------------------------------------------------------------------
(* PolicyEvaluator.get_effective_autonomy_matrix *)

\* Faulty variant: the matrix built from what evaluate would report, so a
\* cell the profile does not permit reads prohibited
get_effective_autonomy_matrix_PermittedOnly(p) ==
    IF p.is3d
        THEN [classification \in DataClassification |->
                [operation \in Operation |->
                    IF HasBasePermission(p, operation, Some(classification))
                        THEN get_autonomy_level(p, operation,
                                                Some(classification))
                        ELSE "prohibited"]]
        ELSE [operation \in Operation |->
                    IF HasBasePermission(p, operation, None)
                        THEN get_autonomy_level(p, operation, None)
                        ELSE "prohibited"]

get_effective_autonomy_matrix(p) ==
    IF p.is3d
        THEN [classification \in DataClassification |->
                [operation \in Operation |->
                    get_autonomy_level(p, operation, Some(classification))]]
        ELSE [operation \in Operation |->
                    get_autonomy_level(p, operation, None)]

-----------------------------------------------------------------------------
(* The profiles and the inputs of the bounded model *)

\* the largest number of entries of a profile's autonomy_overrides
MaxOverrides == 1

\* timestamps fall on the days 0..MaxDay after Monday 2024-01-01
MaxDay == 1

Permissions3D ==
    { [public |-> {"R", "M", "A"}, internal |-> {"R", "M"},
       confidential |-> {"R"}, restricted |-> {"R"}],
      [public |-> {"R"}] }

Permissions2D == { {"R", "M", "A"} }

OverrideKeys(is3d) ==
    IF is3d THEN {"public.C", "public.R"} ELSE {"C", "R"}

\* None, or a dict of at most MaxOverrides entries with values in `levels'
AutonomyOverrides(is3d, levels) ==
    {None} \cup
    { Some(f) : f \in UNION { [K -> levels] :
                    K \in { K \in SUBSET OverrideKeys(is3d) :
                                Cardinality(K) <= MaxOverrides } } }

EscalatedPermissions(is3d) ==
    IF is3d THEN [public |-> {"R", "C"}, restricted |-> {"D"}]
            ELSE {"C", "D"}

\* no escalation block, a disabled one, and enabled ones without and with a
\* trigger_conditions allow-list
EmergencyEscalations(is3d) ==
    {None,
     Some([enabled |-> FALSE,
           trigger_conditions |-> Some({"soc_declared_incident"}),
           escalated_permissions |-> Some(EscalatedPermissions(is3d))])} \cup
    { Some([enabled |-> TRUE, trigger_conditions |-> tc,
            escalated_permissions |-> Some(EscalatedPermissions(is3d))]) :
        tc \in {None, Some({"soc_declared_incident"})} }

TimeWindowsSet ==
    { [timezone |-> "UTC",
       allowed_days |->
            Some({"monday", "tuesday", "wednesday", "thursday", "friday"}),
       allowed_hours |-> Some([start |-> "09:00", end |-> "17:00"]),
       blackout_dates |-> Some({"2024-01-02"})] }

ConstraintsSet ==
    {None, Some([environments |-> None, time_windows |-> None])} \cup
    { Some([environments |-> Some({"production", "staging"}),
            time_windows |-> Some(w)]) : w \in TimeWindowsSet }

ProfilesOver(levels, escalations, constraints) ==
    UNION { { [is3d |-> is3d, permissions |-> perms,
               autonomy_overrides |-> ov, emergency_escalation |-> esc,
               constraints |-> con] :
                perms \in (IF is3d THEN Permissions3D ELSE Permissions2D),
                ov \in AutonomyOverrides(is3d, levels),
                esc \in escalations[is3d],
                con \in constraints } : is3d \in BOOLEAN }


\* Every escalation and constraints block with overrides to three of the
\* levels, and every override level on profiles with neither block
Profiles ==
    ProfilesOver({"autonomous", "approval", "prohibited"},
                 [is3d \in BOOLEAN |-> EmergencyEscalations(is3d)],
                 ConstraintsSet)
        \cup ProfilesOver(AutonomyLevel, [is3d \in BOOLEAN |-> {None}], {None})

Timestamps == { [day |-> d, minute |-> 600, second |-> 0] : d \in 0..MaxDay }

Contexts ==
    { [timestamp |-> ts, environment |-> env, emergency_active |-> ea,
       emergency_trigger |-> trig] :
        ts \in Timestamps,
        env \in {None, Some("production"), Some("development")},
        ea \in BOOLEAN,
        trig \in {None, Some("soc_declared_incident"),
                  Some("manual_authorization")} }

\* the classification argument: omitted, or any tier on a 3D profile and two
\* of the tiers on a 2D profile, which has no use for one
Classifications(is3d) ==
    {None} \cup
    { Some(c) : c \in (IF is3d THEN DataClassification
                               ELSE {"public", "restricted"}) }

-----------------------------------------------------------------------------
(* The state machine: one evaluator over one immutable profile; a caller     *)
(* makes a call, the call returns or raises, the caller takes the result     *)

NoCall == [method |-> "none", args |-> None]

NoResult == [raised |-> FALSE, value |-> None, error |-> None]

\* no concurrent caller is inside the evaluator
NoFrames == <<>>

\* ToolsRegistry(): no tool, an empty set of ids per level, an empty audit log
NewToolsRegistry ==
    [tools |-> <<>>, index_by_level |-> [level \in Operation |-> {}],
     audit_log |-> <<>>]

\* the variables of the concurrent callers and of the tools registry, which
\* a single caller of the evaluator leaves alone
aside == <<frames, seen, registry>>

InitAside ==
    /\ frames = NoFrames
    /\ seen = {}
    /\ registry = NewToolsRegistry

Init ==
    /\ profile \in Profiles
    /\ pc = "idle"
    /\ call = NoCall
    /\ result = NoResult
    /\ InitAside

DoEvaluate(operation, data_classification, context, now) ==
    /\ call' = [method |-> "evaluate",
                args |-> Some([operation |-> operation,
                               data_classification |-> data_classification,
                               context |-> context, now |-> now])]
    /\ result' = evaluate(profile, operation, data_classification, context,
                          now)

CallEvaluate ==
    /\ pc = "idle"
    /\ \E operation \in Operation,
          data_classification \in Classifications(profile.is3d) :
        \/ \E context \in Contexts :
            DoEvaluate(operation, data_classification, Some(context), None)
        \/ \E now \in Timestamps :
            DoEvaluate(operation, data_classification, None, Some(now))
    /\ pc' = "returned"
    /\ UNCHANGED <<profile, aside>>

CallGetEffectiveAutonomyMatrix ==
    /\ pc = "idle"
    /\ call' = [method |-> "get_effective_autonomy_matrix", args |-> None]
    /\ result' = Returned(get_effective_autonomy_matrix(profile))
    /\ pc' = "returned"
    /\ UNCHANGED <<profile, aside>>

\* the caller takes the result and is free to call again
TakeResult ==
    /\ pc = "returned"
    /\ pc' = "idle"
    /\ call' = NoCall
    /\ result' = NoResult
    /\ UNCHANGED <<profile, aside>>

Next == CallEvaluate \/ CallGetEffectiveAutonomyMatrix \/ TakeResult

Spec == Init /\ [][Next]_vars

-----------------------------------------------------------------------------
(* Construction: the Profile2D and Profile3D constructors validate the data  *)
(* (pydantic), PolicyEvaluator(profile) wraps the profile, and evaluate is   *)
(* then called with raw strings.  `data' holds the fields the constructors   *)
(* validate: profile_id, version and permissions, lists taken as sets.       *)

\* re.match(r"^rmacd-2d-[a-z0-9-]+$", s), for the identifiers used here
MatchesProfileId2D(s) ==
    CASE s = "rmacd-2d-ops" -> TRUE
      [] s = "rmacd-3d-ops" -> FALSE
      [] s = "Ops" -> FALSE

\* re.match(r"^rmacd-3d-[a-z0-9-]+$", s), for the identifiers used here
MatchesProfileId3D(s) ==
    CASE s = "rmacd-2d-ops" -> FALSE
      [] s = "rmacd-3d-ops" -> TRUE
      [] s = "Ops" -> FALSE

\* re.match(r"^[0-9]+\.[0-9]+(\.[0-9]+)?$", s), for the versions used here
MatchesVersion(s) ==
    CASE s = "1.0" -> TRUE
      [] s = "2.1.3" -> TRUE
      [] s = "v1" -> FALSE

\* permissions: list[Operation] = Field(min_length=1)
Profile2D(data) ==
    IF /\ MatchesProfileId2D(data.profile_id)
       /\ MatchesVersion(data.version)
       /\ \A o \in data.permissions : IsOperation(o)
       /\ data.permissions # {}
        THEN Returned([is3d |-> FALSE, permissions |-> data.permissions,
                       autonomy_overrides |-> None,
                       emergency_escalation |-> None, constraints |-> None])
        ELSE Raised("ValidationError")

\* permissions: dict[DataClassification, list[Operation]], no length bound
Profile3D(data) ==
    IF /\ MatchesProfileId3D(data.profile_id)
       /\ MatchesVersion(data.version)
       /\ \A c \in DOMAIN data.permissions :
            /\ IsDataClassification(c)
            /\ \A o \in data.permissions[c] : IsOperation(o)
        THEN Returned([is3d |-> TRUE, permissions |-> data.permissions,
                       autonomy_overrides |-> None,
                       emergency_escalation |-> None, constraints |-> None])
        ELSE Raised("ValidationError")

ProfileIds == {"rmacd-2d-ops", "rmacd-3d-ops", "Ops"}

Versions == {"1.0", "2.1.3", "v1"}

\* operation lists as a caller may write them, valid codes or not
RawOperationLists == SUBSET {"R", "C", "read"}

\* classification maps as a caller may write them
RawPermissionMaps ==
    UNION { [K -> {{}, {"R"}, {"R", "M"}, {"r"}}] :
                K \in SUBSET {"public", "restricted", "secret"} }

ProfileData2D ==
    { [profile_id |-> i, version |-> v, permissions |-> perms] :
        i \in ProfileIds, v \in Versions, perms \in RawOperationLists }

ProfileData3D ==
    { [profile_id |-> i, version |-> v, permissions |-> perms] :
        i \in ProfileIds, v \in Versions, perms \in RawPermissionMaps }

\* the operation argument: the codes, and strings that are not codes
RawOperations == Operation \cup {"r", "read", "READ", " R", ""}

\* the classification argument: omitted, codes, and strings that are not
RawClassifications ==
    {None} \cup
    { Some(c) : c \in {"public", "restricted", "PUBLIC", "Public", "secret"} }

\* the context argument: omitted, or a context at that point in time
RawContexts(now) == {None, Some(DefaultContext(now))}

\* no profile has been constructed yet
InitInputs ==
    /\ profile = None
    /\ pc = "new"
    /\ call = NoCall
    /\ result = NoResult
    /\ InitAside

ConstructProfile2D ==
    /\ pc = "new"
    /\ \E data \in ProfileData2D :
        /\ call' = [method |-> "Profile2D", args |-> Some(data)]
        /\ result' = Profile2D(data)
    /\ pc' = "constructed"
    /\ UNCHANGED <<profile, aside>>

ConstructProfile3D ==
    /\ pc = "new"
    /\ \E data \in ProfileData3D :
        /\ call' = [method |-> "Profile3D", args |-> Some(data)]
        /\ result' = Profile3D(data)
    /\ pc' = "constructed"
    /\ UNCHANGED <<profile, aside>>

\* PolicyEvaluator(profile), once the constructor has returned a profile
NewPolicyEvaluator ==
    /\ pc = "constructed"
    /\ ~ result.raised
    /\ profile' = Get(result.value)
    /\ pc' = "idle"
    /\ call' = NoCall
    /\ result' = NoResult
    /\ UNCHANGED aside

\* evaluate called with the strings the caller has, unchecked
CallEvaluateRaw ==
    /\ pc = "idle"
    /\ \E operation \in RawOperations,
          data_classification \in RawClassifications,
          now \in {[day |-> 0, minute |-> 600, second |-> 0]} :
        \E context \in RawContexts(now) :
            DoEvaluate(operation, data_classification, context,
                       IF IsSet(context) THEN None ELSE Some(now))
    /\ pc' = "returned"
    /\ UNCHANGED <<profile, aside>>

NextInputs ==
    \/ ConstructProfile2D
    \/ ConstructProfile3D
    \/ NewPolicyEvaluator
    \/ CallEvaluateRaw
    \/ TakeResult

SpecInputs == InitInputs /\ [][NextInputs]_vars

-----------------------------------------------------------------------------
(* Concurrent callers of one evaluator.  Each caller is inside at most one   *)
(* call; its frame holds the call's locals.  evaluate runs in four steps,    *)
(* each reading self.profile and self._is_3d when it runs, and the steps of  *)
(* different callers interleave.  `seen' keeps every (call, result) pair a   *)
(* caller has taken.                                                         *)

Callers == {"a", "b"}

IdleFrame ==
    [pc |-> "idle", call |-> NoCall, local |-> None, result |-> NoResult]

\* the ValueError of the normalisation step, if it raises one
InputError(p, operation, data_classification) ==
    IF ~ IsOperation(operation)
        THEN Some("'" \o operation \o "' is not a valid Operation")
    ELSE IF IsSet(data_classification)
            /\ ~ IsDataClassification(Get(data_classification))
        THEN Some("'" \o Get(data_classification)
                      \o "' is not a valid DataClassification")
    ELSE IF p.is3d /\ ~ IsSet(data_classification)
        THEN Some("data_classification is required for 3D profiles")
    ELSE None

\* Faulty variant: a grant by escalation is written into the profile's
\* permissions and outlives the call
SelfAfterPermissionCheck_GrantPersists(p, operation, data_classification, context) ==
    IF ~ GrantedByEscalation(p, operation, data_classification, context)
        THEN p
    ELSE IF p.is3d
        THEN [p EXCEPT !.permissions =
                [c \in DOMAIN p.permissions \cup {Get(data_classification)} |->
                    IF c = Get(data_classification)
                        THEN DictGet(p.permissions, c) \cup {operation}
                        ELSE p.permissions[c]]]
        ELSE [p EXCEPT !.permissions = p.permissions \cup {operation}]

\* The evaluator after the permission step: has_permission and
\* constraints_applied are locals, nothing of self is assigned
SelfAfterPermissionCheck(p, operation, data_classification, context) == p

\* Faulty variant: the resolved levels are kept on the profile as overrides
SelfAfterGetEffectiveAutonomyMatrix_CachesLevels(p) ==
    LET cells ==
            { <<o, c>> :
                o \in Operation,
                c \in (IF p.is3d THEN { Some(d) : d \in DataClassification }
                                 ELSE {None}) }
        cell(key) == CHOOSE x \in cells : OverrideKey(p, x[1], x[2]) = key
    IN  [p EXCEPT !.autonomy_overrides =
            Some([key \in { OverrideKey(p, x[1], x[2]) : x \in cells } |->
                    get_autonomy_level(p, cell(key)[1], cell(key)[2])])]

\* The evaluator after get_effective_autonomy_matrix: the matrix is built in
\* a fresh dict, nothing of self is assigned
SelfAfterGetEffectiveAutonomyMatrix(p) == p

\* The evaluator after get_all_permissions: the lists are copied by the
\* comprehensions, nothing of self is assigned
SelfAfterGetAllPermissions(p) == p

\* Faulty variant: a 3D result lists every classification, the ones the
\* profile lacks with an empty list
get_all_permissions_EveryClassification(p) ==
    IF p.is3d
        THEN [c \in DataClassification |-> DictGet(p.permissions, c)]
        ELSE [default |-> p.permissions]

\* get_all_permissions(): the profile's permissions by classification value,
\* or under the single key "default"
get_all_permissions(p) ==
    IF p.is3d THEN p.permissions ELSE [default |-> p.permissions]

\* profiles with an escalation block behind an allow-list and a time window
ConcurrentProfiles ==
    { p \in Profiles :
        /\ p.autonomy_overrides = None
        /\ IsSet(p.emergency_escalation)
        /\ Get(p.emergency_escalation).enabled
        /\ IsSet(Get(p.emergency_escalation).trigger_conditions)
        /\ IsSet(p.constraints)
        /\ IsSet(Get(p.constraints).time_windows) }

\* the contexts the concurrent callers use: a plain one, an emergency one and
\* one on the blackout date
ConcurrentContexts ==
    { [timestamp |-> [day |-> 0, minute |-> 600, second |-> 0],
       environment |-> Some("production"), emergency_active |-> FALSE,
       emergency_trigger |-> None],
      [timestamp |-> [day |-> 0, minute |-> 600, second |-> 0],
       environment |-> Some("production"), emergency_active |-> TRUE,
       emergency_trigger |-> Some("soc_declared_incident")],
      [timestamp |-> [day |-> 1, minute |-> 600, second |-> 0],
       environment |-> Some("production"), emergency_active |-> FALSE,
       emergency_trigger |-> None] }

ConcurrentCalls(p) ==
    { [operation |-> operation,
       data_classification |-> IF p.is3d THEN Some("public") ELSE None,
       context |-> Some(context), now |-> None] :
        operation \in {"R", "C"}, context \in ConcurrentContexts }

InitConcurrent ==
    /\ profile \in ConcurrentProfiles
    /\ pc = "idle"
    /\ call = NoCall
    /\ result = NoResult
    /\ frames = [t \in Callers |-> IdleFrame]
    /\ seen = {}
    /\ registry = NewToolsRegistry

\* evaluate, lines 103-118: normalise the arguments or raise
EnterEvaluate ==
    \E t \in Callers, a \in ConcurrentCalls(profile) :
        /\ frames[t].pc = "idle"
        /\ LET error == InputError(profile, a.operation, a.data_classification)
               this == [method |-> "evaluate", args |-> Some(a)]
           IN  frames' = [frames EXCEPT ![t] =
                IF IsSet(error)
                    THEN [pc |-> "done", call |-> this, local |-> None,
                          result |-> Raised(Get(error))]
                    ELSE [pc |-> "normalised", call |-> this,
                          local |->
                            Some([operation |-> a.operation,
                                  data_classification |-> a.data_classification,
                                  context |->
                                    IF IsSet(a.context)
                                        THEN Get(a.context)
                                        ELSE DefaultContext(Get(a.now)),
                                  constraints_applied |-> <<>>,
                                  autonomy |-> None]),
                          result |-> NoResult]]
        /\ UNCHANGED <<profile, pc, call, result, seen, registry>>

\* evaluate, lines 120-146: the base permission check and the emergency path
CheckPermission ==
    \E t \in Callers :
        /\ frames[t].pc = "normalised"
        /\ LET l == Get(frames[t].local)
           IN  /\ frames' = [frames EXCEPT ![t] =
                    IF ~ Permitted(profile, l.operation, l.data_classification,
                                   l.context)
                        THEN [@ EXCEPT !.pc = "done", !.local = None,
                                !.result = Returned(NotPermittedDecision(
                                    l.operation, l.data_classification,
                                    l.context))]
                        ELSE [@ EXCEPT !.pc = "permitted",
                                !.local = Some([l EXCEPT !.constraints_applied =
                                    IF HasBasePermission(profile, l.operation,
                                            l.data_classification)
                                        THEN <<>>
                                        ELSE <<"emergency_escalation">>])]]
               /\ profile' = SelfAfterPermissionCheck(profile, l.operation,
                                l.data_classification, l.context)
        /\ UNCHANGED <<pc, call, result, seen, registry>>

\* evaluate, lines 148-175: resolve the autonomy level, check the constraints
CheckConstraints ==
    \E t \in Callers :
        /\ frames[t].pc = "permitted"
        /\ LET l == Get(frames[t].local)
               autonomy == get_autonomy_level(profile, l.operation,
                                              l.data_classification)
               constraint_result ==
                    IF IsSet(profile.constraints)
                        THEN check_constraints(profile, l.operation, l.context)
                        ELSE None
           IN  frames' = [frames EXCEPT ![t] =
                IF IsSet(constraint_result)
                    THEN [@ EXCEPT !.pc = "done", !.local = None,
                            !.result = Returned(ConstraintBlockedDecision(
                                l.operation, l.data_classification, l.context,
                                autonomy, constraint_result,
                                l.constraints_applied))]
                    ELSE [@ EXCEPT !.pc = "cleared",
                            !.local = Some([l EXCEPT
                                            !.autonomy = Some(autonomy)])]]
        /\ UNCHANGED <<profile, pc, call, result, seen, registry>>

\* evaluate, lines 177-206: the prohibited check and the accepting return
Conclude ==
    \E t \in Callers :
        /\ frames[t].pc = "cleared"
        /\ LET l == Get(frames[t].local)
               autonomy == Get(l.autonomy)
           IN  frames' = [frames EXCEPT ![t] =
                [@ EXCEPT !.pc = "done", !.local = None,
                    !.result = Returned(
                        IF autonomy = "prohibited"
                            THEN ProhibitedDecision(l.operation,
                                    l.data_classification, l.context, autonomy,
                                    l.constraints_applied)
                            ELSE AcceptedDecision(l.operation,
                                    l.data_classification, l.context, autonomy,
                                    l.constraints_applied))]]
        /\ UNCHANGED <<profile, pc, call, result, seen, registry>>

RunGetEffectiveAutonomyMatrix ==
    \E t \in Callers :
        /\ frames[t].pc = "idle"
        /\ frames' = [frames EXCEPT ![t] =
                [pc |-> "done",
                 call |-> [method |-> "get_effective_autonomy_matrix",
                           args |-> None],
                 local |-> None,
                 result |-> Returned(get_effective_autonomy_matrix(profile))]]
        /\ profile' = SelfAfterGetEffectiveAutonomyMatrix(profile)
        /\ UNCHANGED <<pc, call, result, seen, registry>>

RunGetAllPermissions ==
    \E t \in Callers :
        /\ frames[t].pc = "idle"
        /\ frames' = [frames EXCEPT ![t] =
                [pc |-> "done",
                 call |-> [method |-> "get_all_permissions", args |-> None],
                 local |-> None,
                 result |-> Returned(get_all_permissions(profile))]]
        /\ profile' = SelfAfterGetAllPermissions(profile)
        /\ UNCHANGED <<pc, call, result, seen, registry>>

\* the caller takes what its call returned or raised
ReturnToCaller ==
    \E t \in Callers :
        /\ frames[t].pc = "done"
        /\ frames' = [frames EXCEPT ![t] = IdleFrame]
        /\ seen' = IF frames[t].call.method = "evaluate"
                    THEN seen \cup {[args |-> Get(frames[t].call.args),
                                     result |-> frames[t].result]}
                    ELSE seen
        /\ UNCHANGED <<profile, pc, call, result, registry>>

NextConcurrent ==
    \/ EnterEvaluate
    \/ CheckPermission
    \/ CheckConstraints
    \/ Conclude
    \/ RunGetEffectiveAutonomyMatrix
    \/ RunGetAllPermissions
    \/ ReturnToCaller

SpecConcurrent == InitConcurrent /\ [][NextConcurrent]_vars

-----------------------------------------------------------------------------
(* Constraints in depth: one caller, profiles that differ in their           *)
(* constraints block only, and contexts on weekdays and weekend days, inside *)
(* and outside the allowed hours, on and off the blackout dates.             *)

WorkDays == {"monday", "tuesday", "wednesday", "thursday", "friday"}

WindowTimeWindows ==
    { [timezone |-> tz, allowed_days |-> days, allowed_hours |-> hours,
       blackout_dates |-> dates] :
        tz \in {"UTC", "Asia/Tokyo"},
        days \in {None, Some({}), Some(WorkDays)},
        hours \in {None, Some([start |-> "09:00", end |-> "17:00"]),
                   Some([start |-> "17:00", end |-> "09:00"])},
        dates \in {None, Some({"2024-01-02", "2024-01-06"})} }

WindowConstraints ==
    { Some([environments |-> envs, time_windows |-> w]) :
        envs \in {None, Some({}), Some({"production", "staging"})},
        w \in {None} \cup { Some(x) : x \in WindowTimeWindows } }

\* a 2D profile that grants reads, with each of the constraints blocks
WindowProfiles ==
    { [is3d |-> FALSE, permissions |-> {"R"}, autonomy_overrides |-> None,
       emergency_escalation |-> None, constraints |-> con] :
        con \in WindowConstraints }

\* the minutes of the day 00:00, 07:59, 08:00, 08:59, 09:00, 10:00, 17:00 and
\* 20:00: in UTC and in Tokyo (nine hours ahead) they fall before, on,
\* between and after the bounds 09:00 and 17:00
WindowMinutes == {0, 479, 480, 539, 540, 600, 1020, 1200}

\* Monday 1, Tuesday 2, Saturday 6 and Sunday 7 January 2024, at the first and
\* the last second of each of these minutes
WindowTimestamps ==
    { [day |-> d, minute |-> m, second |-> sec] :
        d \in {0, 1, 5, 6}, m \in WindowMinutes, sec \in {0, 59} }

WindowContexts ==
    { [timestamp |-> ts, environment |-> env, emergency_active |-> FALSE,
       emergency_trigger |-> None] :
        ts \in WindowTimestamps,
        env \in {None, Some("production"), Some("development")} }

InitWindows ==
    /\ profile \in WindowProfiles
    /\ pc = "idle"
    /\ call = NoCall
    /\ result = NoResult
    /\ InitAside

\* evaluate at a chosen point in time and environment
CallEvaluateAt ==
    /\ pc = "idle"
    /\ \E operation \in {"R", "C"}, context \in WindowContexts :
        DoEvaluate(operation, None, Some(context), None)
    /\ pc' = "returned"
    /\ UNCHANGED <<profile, aside>>

NextWindows == CallEvaluateAt \/ TakeResult

SpecWindows == InitWindows /\ [][NextWindows]_vars

-----------------------------------------------------------------------------
(* The tools registry: ToolsRegistry of tools-registry/rmacd_tools_registry  *)
(* ("standalone") and its port in the SDK, rmacd/registry/tools.py ("sdk").  *)
(* The registry record carries which of the two it is: they differ in the    *)
(* human-in-the-loop codes and in what validate_tool_access does with an     *)
(* exception.  A tool is registered from a dict, whose keys may be missing   *)
(* (None).  Risk scores are in hundredths.  The timestamp of an audit entry  *)
(* is not modelled.                                                          *)

RegistryImplementations == {"standalone", "sdk"}

\* code.upper().strip(), for the level codes used here
UpperStrip(code) ==
    CASE code = "R" -> "R"
      [] code = "r" -> "R"
      [] code = "D" -> "D"
      [] code = " d " -> "D"
      [] code = "X" -> "X"
      [] code = "read" -> "READ"

\* code.lower().strip(), for the tier and human-in-the-loop codes used here
LowerStrip(code) ==
    CASE code = "public" -> "public"
      [] code = "internal" -> "internal"
      [] code = "confidential" -> "confidential"
      [] code = "Confidential " -> "confidential"
      [] code = "restricted" -> "restricted"
      [] code = "prohibited" -> "prohibited"
      [] code = "PROHIBITED" -> "prohibited"
      [] code = "logged" -> "logged"
      [] code = "bogus" -> "bogus"

\* tool_id.strip().lower().replace(" ", "_"), for the identifiers used here
NormaliseToolId(tool_id) ==
    CASE tool_id = "read_tool" -> "read_tool"
      [] tool_id = "Read Tool" -> "read_tool"
      [] tool_id = " READ_TOOL " -> "read_tool"
      [] tool_id = "del_tool" -> "del_tool"
      [] tool_id = "data_tool" -> "data_tool"
      [] tool_id = "nope" -> "nope"

\* the codes of HITLLevel (standalone) and the values of AutonomyLevel (sdk)
HitlCodes(impl) ==
    IF impl = "standalone"
        THEN {"auto", "logged", "notify", "approve", "elevated", "prohibited"}
        ELSE AutonomyLevel

\* list(DataClassification): the tiers in their order of definition
TierOrder == <<"public", "internal", "confidential", "restricted">>

\* tier_order.index(tier)
TierIndex(tier) == CHOOSE i \in 1..Len(TierOrder) : TierOrder[i] = tier

\* RMACDLevel.from_code(code) / parse_operation(code): the level, or the
\* message of the ValueError
LevelFromCode(impl, code) ==
    IF UpperStrip(code) \in Operation
        THEN Returned(UpperStrip(code))
    ELSE IF impl = "standalone"
        THEN Raised("Invalid RMACD code: " \o code
                        \o ". Valid codes: R, M, A, C, D")
        ELSE Raised("'" \o UpperStrip(code) \o "' is not a valid Operation")

\* DataClassification.from_code(code) / parse_data_classification(code)
TierFromCode(impl, code) ==
    IF LowerStrip(code) \in DataClassification
        THEN Returned(LowerStrip(code))
    ELSE IF impl = "standalone"
        THEN Raised("Invalid data classification: " \o code
                \o ". Valid codes: public, internal, confidential, restricted")
        ELSE Raised("'" \o LowerStrip(code)
                        \o "' is not a valid DataClassification")

\* HITLLevel.from_code(code) / parse_autonomy_level(code)
HitlFromCode(impl, code) ==
    IF LowerStrip(code) \in HitlCodes(impl)
        THEN Returned(LowerStrip(code))
    ELSE IF impl = "standalone"
        THEN Raised("Invalid HITL code: " \o code \o ". Valid codes: "
                \o "auto, logged, notify, approve, elevated, prohibited")
        ELSE Raised("'" \o LowerStrip(code)
                        \o "' is not a valid AutonomyLevel")

\* rmacd_risk, in hundredths
RmacdRisk(level) ==
    CASE level = "R" -> 0
      [] level = "M" -> 25
      [] level = "A" -> 50
      [] level = "C" -> 75
      [] level = "D" -> 100

\* data_risk, in hundredths; 0 without a data_access
DataRisk(data_access) ==
    IF ~ IsSet(data_access) THEN 0
    ELSE CASE Get(data_access) = "public" -> 0
           [] Get(data_access) = "internal" -> 33
           [] Get(data_access) = "confidential" -> 67
           [] Get(data_access) = "restricted" -> 100

\* hitl_modifier, in tenths; 10 without a required_hitl
HitlModifier(required_hitl) ==
    IF ~ IsSet(required_hitl) THEN 10
    ELSE CASE Get(required_hitl) = "prohibited" -> 0
           [] Get(required_hitl) \in {"elevated", "elevated_approval"} -> 2
           [] Get(required_hitl) \in {"approve", "approval"} -> 4
           [] Get(required_hitl) \in {"notify", "notification"} -> 6
           [] Get(required_hitl) = "logged" -> 8
           [] Get(required_hitl) \in {"auto", "autonomous"} -> 10

\* round((rmacd_risk * 0.6 + data_risk * 0.4) * hitl_modifier * 10, 2), in
\* hundredths
calculate_risk_score(level, data_access, required_hitl) ==
    (((RmacdRisk(level) * 6 + DataRisk(data_access) * 4)
        * HitlModifier(required_hitl)) + 5) \div 10

\* ", ".join(fields)
RECURSIVE JoinComma(_)
JoinComma(fields) ==
    IF Len(fields) = 0 THEN ""
    ELSE IF Len(fields) = 1 THEN fields[1]
    ELSE fields[1] \o ", " \o JoinComma(Tail(fields))

\* str(list_of_codes): "['R', 'D']"
RECURSIVE QuotedCodes(_)
QuotedCodes(codes) ==
    IF Len(codes) = 0 THEN <<>>
    ELSE <<"'" \o codes[1] \o "'">> \o QuotedCodes(Tail(codes))

ListRepr(codes) == "[" \o JoinComma(QuotedCodes(codes)) \o "]"

\* ToolDefinition.from_dict(data) with __post_init__: the validated tool, or
\* the error it raises
ToolDefinition(impl, data) ==
    LET missing ==
            SelectSeq(<<"tool_id", "tool_name", "rmacd_level">>,
                      LAMBDA f : ~ IsSet(data[f]))
        level == LevelFromCode(impl, Get(data.rmacd_level))
        access == TierFromCode(impl, Get(data.data_access))
        hitl == HitlFromCode(impl, Get(data.required_hitl))
    IN  IF Len(missing) > 0
            THEN Raised("Missing required fields: " \o JoinComma(missing))
        ELSE IF Get(data.tool_id) = ""
            THEN Raised("tool_id must be a non-empty string")
        ELSE IF Get(data.tool_name) = ""
            THEN Raised("tool_name must be a non-empty string")
        ELSE IF level.raised THEN level
        ELSE IF IsSet(data.data_access) /\ access.raised THEN access
        ELSE IF IsSet(data.required_hitl) /\ hitl.raised THEN hitl
        ELSE LET data_access ==
                    IF IsSet(data.data_access) THEN access.value ELSE None
                 required_hitl ==
                    IF IsSet(data.required_hitl) THEN hitl.value ELSE None
             IN  Returned(
                    [tool_id |-> NormaliseToolId(Get(data.tool_id)),
                     tool_name |-> Get(data.tool_name),
                     rmacd_level |-> Get(level.value),
                     data_access |-> data_access,
                     required_hitl |-> required_hitl,
                     risk_score |->
                        calculate_risk_score(Get(level.value), data_access,
                                             required_hitl)])

\* self._log_audit(action, tool_id, details)
log_audit(reg, action, tool_id, details) ==
    [reg EXCEPT !.audit_log =
        Append(@, [action |-> action, tool_id |-> tool_id,
                   details |-> details])]

\* self._tools[tool.tool_id] = tool
PutTool(tools, tool) ==
    [id \in DOMAIN tools \cup {tool.tool_id} |->
        IF id = tool.tool_id THEN tool ELSE tools[id]]

\* Faulty variant: the attempt is written to the audit log before the tool
\* data is validated
register_tool_AuditsAttempt(reg, data) ==
    LET attempted ==
            log_audit(reg, "register",
                      IF IsSet(data.tool_id) THEN Get(data.tool_id) ELSE "",
                      <<>>)
        made == ToolDefinition(reg.impl, data)
    IN  IF made.raised
            THEN [registry |-> attempted, result |-> made]
            ELSE LET tool == Get(made.value)
                 IN  [registry |->
                        [attempted EXCEPT
                            !.tools = PutTool(@, tool),
                            !.index_by_level[tool.rmacd_level] =
                                @ \cup {tool.tool_id}],
                      result |-> Returned(TRUE)]

\* register_tool(tool): the registry after the call and what the call gives
register_tool(reg, data) ==
    LET made == ToolDefinition(reg.impl, data)
    IN  IF made.raised
            THEN [registry |-> reg, result |-> made]
            ELSE LET tool == Get(made.value)
                 IN  [registry |->
                        log_audit(
                            [reg EXCEPT
                                !.tools = PutTool(@, tool),
                                !.index_by_level[tool.rmacd_level] =
                                    @ \cup {tool.tool_id}],
                            "register", tool.tool_id,
                            [rmacd_level |-> tool.rmacd_level,
                             risk_score |-> tool.risk_score]),
                      result |-> Returned(TRUE)]

\* get_tool(tool_id): the tool registered under the normalised id, if any
get_tool(reg, tool_id) ==
    IF NormaliseToolId(tool_id) \in DOMAIN reg.tools
        THEN Some(reg.tools[NormaliseToolId(tool_id)])
        ELSE None

\* Faulty variant: the comparison the other way round, a tool denied when
\* its tier is below the allowed one
TierExceeds_Inverted(data_access, data_tier) ==
    TierIndex(data_access) < TierIndex(data_tier)

\* tier_order.index(tool.data_access) > tier_order.index(data_tier)
TierExceeds(data_access, data_tier) ==
    TierIndex(data_access) > TierIndex(data_tier)

\* the body of validate_tool_access: the registry after it, and the tuple it
\* returns or the exception that leaves it
ValidateToolAccessBody(reg, tool_id, allowed_levels, data_tier) ==
    LET found == get_tool(reg, tool_id)
        tool == Get(found)
        bad_levels ==
            SelectSeq(allowed_levels,
                      LAMBDA l : LevelFromCode(reg.impl, l).raised)
        allowed_enums ==
            [i \in 1..Len(allowed_levels) |-> UpperStrip(allowed_levels[i])]
        tier == TierFromCode(reg.impl, Get(data_tier))
        denied(reason) ==
            [registry |-> reg,
             result |-> Returned([allowed |-> FALSE, reason |-> reason])]
    IN  IF ~ IsSet(found)
            THEN denied("Tool '" \o tool_id \o "' not found in registry")
        ELSE IF Len(bad_levels) > 0
            THEN [registry |-> reg,
                  result |-> LevelFromCode(reg.impl, bad_levels[1])]
        ELSE IF tool.rmacd_level
                    \notin { allowed_enums[i] : i \in 1..Len(allowed_enums) }
            THEN denied("Tool requires " \o tool.rmacd_level
                        \o " permission, but only " \o ListRepr(allowed_enums)
                        \o " allowed")
        ELSE IF IsSet(data_tier) /\ tier.raised
            THEN [registry |-> reg, result |-> tier]
        ELSE IF /\ IsSet(data_tier)
                /\ IsSet(tool.data_access)
                /\ TierExceeds(Get(tool.data_access), Get(tier.value))
            THEN denied("Tool requires " \o Get(tool.data_access)
                        \o " data access, but only " \o Get(tier.value)
                        \o " allowed")
        ELSE IF tool.required_hitl = Some("prohibited")
            THEN denied("Tool is explicitly prohibited")
        ELSE [registry |->
                log_audit(reg, "validate_access", tool_id,
                          [allowed |-> TRUE, allowed_levels |-> allowed_enums]),
              result |->
                Returned([allowed |-> TRUE,
                          reason |-> "Access granted for "
                                \o tool.rmacd_level \o " operation"])]

\* validate_tool_access(tool_id, allowed_levels, data_tier): the standalone
\* registry turns an exception into a denial, the SDK one lets it out
validate_tool_access(reg, tool_id, allowed_levels, data_tier) ==
    LET out == ValidateToolAccessBody(reg, tool_id, allowed_levels, data_tier)
    IN  IF out.result.raised /\ reg.impl = "standalone"
            THEN [registry |-> out.registry,
                  result |->
                    Returned([allowed |-> FALSE,
                              reason |-> "Validation error: "
                                            \o Get(out.result.error)])]
            ELSE out

\* get_tools_by_level(rmacd_level): the tools the index lists under the
\* level, as a set (the list follows the iteration order of a set of ids).
\* An invalid code gives [] in the standalone registry, ValueError in the SDK
get_tools_by_level(reg, rmacd_level) ==
    LET level == LevelFromCode(reg.impl, rmacd_level)
    IN  IF level.raised
            THEN IF reg.impl = "standalone" THEN Returned({}) ELSE level
            ELSE LET tool_ids == reg.index_by_level[Get(level.value)]
                 IN  Returned({ reg.tools[tid] :
                                tid \in tool_ids \cap DOMAIN reg.tools })

\* get_stats(): the counts of the result (registry_id and avg_risk_score are
\* left out)
get_stats(reg) ==
    [total_tools |-> Cardinality(DOMAIN reg.tools),
     by_level |-> [level \in Operation |->
                    Cardinality(reg.index_by_level[level])],
     audit_entries |-> Len(reg.audit_log)]

\* the audit log of the model holds at most this many entries
MaxAuditLog == 2

\* a tool dict with these keys; None is a key the dict does not have
ToolDict(tool_id, tool_name, rmacd_level, data_access, required_hitl) ==
    [tool_id |-> tool_id, tool_name |-> tool_name,
     rmacd_level |-> rmacd_level, data_access |-> data_access,
     required_hitl |-> required_hitl]

ValidToolDicts ==
    { ToolDict(Some("read_tool"), Some("Read Tool"), Some("R"), None, None),
      ToolDict(Some("Read Tool"), Some("Read Tool"), Some(" d "),
               Some("Confidential "), None),
      ToolDict(Some("del_tool"), Some("Delete Tool"), Some("D"), None,
               Some("PROHIBITED")),
      ToolDict(Some("data_tool"), Some("Data Tool"), Some("r"),
               Some("confidential"), Some("logged")) }

\* {"invalid": "data"} and other dicts that register_tool rejects
InvalidToolDicts ==
    { ToolDict(None, None, None, None, None),
      ToolDict(Some("read_tool"), Some("Read Tool"), None, None, None),
      ToolDict(Some(""), Some("Read Tool"), Some("R"), None, None),
      ToolDict(Some("read_tool"), Some(""), Some("R"), None, None),
      ToolDict(Some("read_tool"), Some("Read Tool"), Some("X"), None, None),
      ToolDict(Some("read_tool"), Some("Read Tool"), Some("read"), None, None),
      ToolDict(Some("read_tool"), Some("Read Tool"), Some("R"), Some("bogus"),
               None),
      ToolDict(Some("del_tool"), Some("Delete Tool"), Some("D"), None,
               Some("bogus")) }

ToolDicts == ValidToolDicts \cup InvalidToolDicts

AccessToolIds == {"read_tool", " READ_TOOL ", "del_tool", "data_tool", "nope"}

AllowedLevelLists == { <<"R">>, <<"r", "D">>, <<"R", "X">>, <<>> }

DataTiers ==
    {None, Some("internal"), Some("confidential"), Some("restricted"),
     Some("bogus")}

InitRegistry ==
    /\ profile = None
    /\ pc = "idle"
    /\ call = NoCall
    /\ result = NoResult
    /\ frames = NoFrames
    /\ seen = {}
    /\ registry \in { [impl |-> impl] @@ NewToolsRegistry :
                        impl \in RegistryImplementations }

CallRegisterTool ==
    /\ pc = "idle"
    /\ \E data \in ToolDicts :
        LET out == register_tool(registry, data)
        IN  /\ Len(out.registry.audit_log) <= MaxAuditLog
            /\ call' = [method |-> "register_tool", args |-> Some(data)]
            /\ registry' = out.registry
            /\ result' = out.result
    /\ pc' = "returned"
    /\ UNCHANGED <<profile, frames, seen>>

CallValidateToolAccess ==
    /\ pc = "idle"
    /\ \E tool_id \in AccessToolIds, allowed_levels \in AllowedLevelLists,
          data_tier \in DataTiers :
        LET out == validate_tool_access(registry, tool_id, allowed_levels,
                                        data_tier)
        IN  /\ Len(out.registry.audit_log) <= MaxAuditLog
            /\ call' = [method |-> "validate_tool_access",
                        args |-> Some([tool_id |-> tool_id,
                                       allowed_levels |-> allowed_levels,
                                       data_tier |-> data_tier])]
            /\ registry' = out.registry
            /\ result' = out.result
    /\ pc' = "returned"
    /\ UNCHANGED <<profile, frames, seen>>

\* the level codes get_tools_by_level is asked for
LevelCodes == {"R", " d ", "X"}

CallGetToolsByLevel ==
    /\ pc = "idle"
    /\ \E rmacd_level \in LevelCodes :
        /\ call' = [method |-> "get_tools_by_level",
                    args |-> Some([rmacd_level |-> rmacd_level])]
        /\ result' = get_tools_by_level(registry, rmacd_level)
    /\ pc' = "returned"
    /\ UNCHANGED <<profile, aside>>

CallGetStats ==
    /\ pc = "idle"
    /\ call' = [method |-> "get_stats", args |-> None]
    /\ result' = Returned(get_stats(registry))
    /\ pc' = "returned"
    /\ UNCHANGED <<profile, aside>>

NextRegistry ==
    \/ CallRegisterTool
    \/ CallValidateToolAccess
    \/ CallGetToolsByLevel
    \/ CallGetStats
    \/ TakeResult

SpecRegistry == InitRegistry /\ [][NextRegistry]_vars

-----------------------------------------------------------------------------
(* What the properties below speak of: the call that has just returned *)

\* evaluate has returned a decision
HasDecision ==
    pc = "returned" /\ call.method = "evaluate" /\ ~ result.raised

HasMatrix ==
    pc = "returned" /\ call.method = "get_effective_autonomy_matrix"

Decision == Get(result.value)

Matrix == Get(result.value)

CallOperation == Get(call.args).operation

CallClassification == Get(call.args).data_classification

\* the context evaluate worked with: the caller's, or the default one
CallContext ==
    IF IsSet(Get(call.args).context)
        THEN Get(Get(call.args).context)
        ELSE DefaultContext(Get(Get(call.args).now))

Contains(seq, x) == \E i \in 1..Len(seq) : seq[i] = x

CallHasBasePermission ==
    HasBasePermission(profile, CallOperation, CallClassification)

\* the operation is listed in the escalated permissions of the profile, for
\* the classification of the call on a 3D profile
CallInEscalatedPermissions ==
    /\ IsSet(profile.emergency_escalation)
    /\ LET granted == Get(profile.emergency_escalation).escalated_permissions
       IN  /\ IsSet(granted)
           /\ IF profile.is3d
                THEN /\ Get(CallClassification) \in DOMAIN Get(granted)
                     /\ CallOperation
                            \in Get(granted)[Get(CallClassification)]
                ELSE CallOperation \in Get(granted)

\* the profile's escalation has a non-empty trigger_conditions allow-list
HasAllowList ==
    /\ IsSet(profile.emergency_escalation)
    /\ IsSet(Get(profile.emergency_escalation).trigger_conditions)
    /\ Get(Get(profile.emergency_escalation).trigger_conditions) # {}

AllowList == Get(Get(profile.emergency_escalation).trigger_conditions)

-----------------------------------------------------------------------------
(* C1: with a non-empty trigger_conditions allow-list, an emergency context  *)
(* that names no trigger is not granted escalation: an operation outside the *)
(* base permissions is denied even if escalated_permissions lists it.        *)
C1_NoTriggerIsDenied ==
    (/\ HasDecision
     /\ HasAllowList
     /\ CallContext.emergency_active
     /\ ~ IsSet(CallContext.emergency_trigger)
     /\ ~ CallHasBasePermission)
        => (/\ ~ Decision.allowed
            /\ ~ Contains(Decision.constraints_applied, "emergency_escalation"))

(* C2: on every terminal path of evaluate the decision's emergency_mode      *)
(* equals the context's emergency_active.                                    *)
C2_EmergencyModeMirrorsContext ==
    HasDecision => Decision.emergency_mode = CallContext.emergency_active

(* C3: an operation that is neither in the granted set nor granted by        *)
(* escalation gets allowed=false, autonomy_level=prohibited, no approval, no *)
(* notification and the reason "Operation <op> not permitted for this        *)
(* profile".                                                                 *)
C3_NotPermittedDecision ==
    (/\ HasDecision
     /\ ~ CallHasBasePermission
     /\ ~ (/\ CallContext.emergency_active
           /\ check_emergency_permission(profile, CallOperation,
                                         CallClassification, CallContext)))
        => (/\ Decision.allowed = FALSE
            /\ Decision.autonomy_level = "prohibited"
            /\ Decision.requires_approval = FALSE
            /\ Decision.requires_notification = FALSE
            /\ Decision.blocked_reason
                = Some("Operation " \o CallOperation
                        \o " not permitted for this profile"))

C3_Witness ==
    /\ HasDecision
    /\ profile.is3d
    /\ CallOperation = "D"
    /\ CallClassification = Some("public")
    /\ ~ CallHasBasePermission
    /\ Decision.blocked_reason
            = Some("Operation D not permitted for this profile")

\* the profile's override dict, empty when the profile has none
Overrides ==
    IF IsSet(profile.autonomy_overrides)
        THEN Get(profile.autonomy_overrides)
        ELSE <<>>

\* the lookup key of a cell: "<classification>.<operation>" on a 3D profile,
\* "<operation>" on a 2D one
CellKey(classification, operation) ==
    IF profile.is3d THEN classification \o "." \o operation ELSE operation

\* the evaluation went past the permission check (by base permission or by
\* escalation), so the decision carries the resolved autonomy level
CallPermitted ==
    Permitted(profile, CallOperation, CallClassification, CallContext)

\* the classification of the call's cell; a 2D cell has none
CallCell == IF profile.is3d THEN Get(CallClassification) ELSE "-"

(* C4: a cell with no entry in autonomy_overrides resolves to its entry of   *)
(* the fixed default table (4x5 for 3D, R->logged, M->notification,          *)
(* A->approval, C->approval, D->elevated_approval for 2D), whatever          *)
(* overrides the other cells have.                                           *)
C4_DefaultWhereNoOverride ==
    LET table3d ==
            [public |->
                [R |-> "autonomous", M |-> "logged", A |-> "notification",
                 C |-> "notification", D |-> "approval"],
             internal |->
                [R |-> "logged", M |-> "notification", A |-> "approval",
                 C |-> "approval", D |-> "elevated_approval"],
             confidential |->
                [R |-> "notification", M |-> "approval",
                 A |-> "elevated_approval", C |-> "elevated_approval",
                 D |-> "prohibited"],
             restricted |->
                [R |-> "approval", M |-> "elevated_approval",
                 A |-> "prohibited", C |-> "prohibited", D |-> "prohibited"]]
        table2d ==
            [R |-> "logged", M |-> "notification", A |-> "approval",
             C |-> "approval", D |-> "elevated_approval"]
        expected(c, o) == IF profile.is3d THEN table3d[c][o] ELSE table2d[o]
        plain == [profile EXCEPT !.autonomy_overrides = None]
    IN  /\ (HasMatrix /\ profile.is3d) =>
                \A c \in DataClassification, o \in Operation :
                    CellKey(c, o) \notin DOMAIN Overrides
                        => /\ Matrix[c][o] = expected(c, o)
                           /\ Matrix[c][o]
                                = get_effective_autonomy_matrix(plain)[c][o]
        /\ (HasMatrix /\ ~ profile.is3d) =>
                \A o \in Operation :
                    CellKey("-", o) \notin DOMAIN Overrides
                        => /\ Matrix[o] = expected("-", o)
                           /\ Matrix[o]
                                = get_effective_autonomy_matrix(plain)[o]
        /\ (/\ HasDecision
            /\ CallPermitted
            /\ CellKey(CallCell, CallOperation) \notin DOMAIN Overrides)
                => Decision.autonomy_level = expected(CallCell, CallOperation)

C4_Witness ==
    /\ HasDecision
    /\ profile.is3d
    /\ DOMAIN Overrides = {"public.C"}
    /\ Overrides["public.C"] = "prohibited"
    /\ CallOperation = "R"
    /\ CallClassification = Some("public")
    /\ Decision.allowed
    /\ Decision.autonomy_level = "autonomous"

(* C5: a cell that has an entry in autonomy_overrides resolves to exactly    *)
(* that value, whether it is more or less restrictive than the default.      *)
C5_OverrideVerbatim ==
    /\ (HasMatrix /\ profile.is3d) =>
            \A c \in DataClassification, o \in Operation :
                CellKey(c, o) \in DOMAIN Overrides
                    => Matrix[c][o] = Overrides[CellKey(c, o)]
    /\ (HasMatrix /\ ~ profile.is3d) =>
            \A o \in Operation :
                CellKey("-", o) \in DOMAIN Overrides
                    => Matrix[o] = Overrides[CellKey("-", o)]
    /\ (/\ HasDecision
        /\ CallPermitted
        /\ CellKey(CallCell, CallOperation) \in DOMAIN Overrides)
            => Decision.autonomy_level
                    = Overrides[CellKey(CallCell, CallOperation)]

\* Scenario F's shape: an override below the default (notification) is used
C5_Witness ==
    /\ HasDecision
    /\ profile.is3d
    /\ "public.C" \in DOMAIN Overrides
    /\ Overrides["public.C"] = "autonomous"
    /\ CallOperation = "C"
    /\ CallClassification = Some("public")
    /\ Decision.allowed
    /\ Decision.autonomy_level = "autonomous"
    /\ ~ Decision.requires_approval

\* every emergency state a context can carry
EmergencyStates ==
    { [active |-> ea, trigger |-> trig] :
        ea \in BOOLEAN, trig \in {None} \cup { Some(t) : t \in TriggerCondition } }

(* C6: when the base permission check passes, changing only emergency_active *)
(* and emergency_trigger of the context never changes `allowed' and never    *)
(* puts "emergency_escalation" into constraints_applied.                     *)
C6_EmergencyNeverChangesBasePermitted ==
    (HasDecision /\ CallHasBasePermission) =>
        \A e \in EmergencyStates :
            LET other ==
                    Decide(profile, CallOperation, CallClassification,
                           [CallContext EXCEPT
                                !.emergency_active = e.active,
                                !.emergency_trigger = e.trigger])
            IN  /\ other.allowed = Decision.allowed
                /\ ~ Contains(other.constraints_applied,
                              "emergency_escalation")
                /\ ~ Contains(Decision.constraints_applied,
                              "emergency_escalation")

\* a base-permitted operation that escalation lists too, in an emergency
C6_Witness ==
    /\ HasDecision
    /\ CallHasBasePermission
    /\ CallInEscalatedPermissions
    /\ Get(profile.emergency_escalation).enabled
    /\ CallContext.emergency_active
    /\ CallContext.emergency_trigger = Some("soc_declared_incident")
    /\ Decision.allowed
    /\ Decision.constraints_applied = <<>>

\* escalation is present in the profile and enabled
EscalationEnabled ==
    /\ IsSet(profile.emergency_escalation)
    /\ Get(profile.emergency_escalation).enabled

(* C7, as stated: an operation outside the base permissions is allowed only  *)
(* if emergency_active is true, escalation is present and enabled, any       *)
(* supplied emergency_trigger is a member of a non-empty trigger_conditions  *)
(* allow-list, and the operation is in escalated_permissions.                *)
C7_AllowedOnlyWithListedTrigger ==
    (HasDecision /\ ~ CallHasBasePermission /\ Decision.allowed) =>
        /\ CallContext.emergency_active
        /\ EscalationEnabled
        /\ IsSet(CallContext.emergency_trigger)
                => (/\ HasAllowList
                    /\ Get(CallContext.emergency_trigger) \in AllowList)
        /\ CallInEscalatedPermissions

(* C7, amended: an operation outside the base permissions is allowed only if *)
(* emergency_active is true, escalation is present and enabled, any supplied *)
(* emergency_trigger is a member of the trigger_conditions allow-list        *)
(* whenever the profile has a non-empty one, and the operation is in         *)
(* escalated_permissions.                                                    *)
C7_AllowedOnlyByEscalation ==
    (HasDecision /\ ~ CallHasBasePermission /\ Decision.allowed) =>
        /\ CallContext.emergency_active
        /\ EscalationEnabled
        /\ (IsSet(CallContext.emergency_trigger) /\ HasAllowList)
                => Get(CallContext.emergency_trigger) \in AllowList
        /\ CallInEscalatedPermissions

\* allowed by escalation alone, with a trigger the profile has no list for
C7_Witness ==
    /\ HasDecision
    /\ ~ CallHasBasePermission
    /\ Decision.allowed
    /\ CallContext.emergency_trigger = Some("manual_authorization")
    /\ ~ HasAllowList

(* C8: when the base check fails and the context is an emergency with        *)
(* escalation enabled, the supplied trigger in the allow-list and the        *)
(* operation in the escalated permissions, the evaluation goes on as         *)
(* permitted: constraints_applied contains "emergency_escalation", and the   *)
(* decision is allowed with emergency_mode=true unless the resolved autonomy *)
(* is prohibited or a constraint blocks.                                     *)
C8_EscalationGrants ==
    (/\ HasDecision
     /\ ~ CallHasBasePermission
     /\ CallContext.emergency_active
     /\ EscalationEnabled
     /\ IsSet(CallContext.emergency_trigger)
     /\ HasAllowList
     /\ Get(CallContext.emergency_trigger) \in AllowList
     /\ CallInEscalatedPermissions)
        => /\ Contains(Decision.constraints_applied, "emergency_escalation")
           /\ (/\ get_autonomy_level(profile, CallOperation,
                                     CallClassification) # "prohibited"
               /\ check_constraints(profile, CallOperation, CallContext)
                    = None)
                => (/\ Decision.allowed
                    /\ Decision.emergency_mode
                    /\ Decision.blocked_reason = None)

\* Scenario C
C8_Witness ==
    /\ HasDecision
    /\ profile.is3d
    /\ DOMAIN profile.permissions = {"public"}
    /\ CallOperation = "C"
    /\ CallClassification = Some("public")
    /\ HasAllowList
    /\ CallContext.emergency_active
    /\ CallContext.emergency_trigger = Some("soc_declared_incident")
    /\ Decision.allowed
    /\ Decision.emergency_mode
    /\ Decision.constraints_applied = <<"emergency_escalation">>

(* C9: in every decision requires_approval is true exactly when the          *)
(* autonomy_level is approval or elevated_approval, and                      *)
(* requires_notification exactly when it is notification, approval or        *)
(* elevated_approval.                                                        *)
C9_RequiresFollowAutonomy ==
    HasDecision =>
        /\ Decision.requires_approval
            <=> Decision.autonomy_level \in {"approval", "elevated_approval"}
        /\ Decision.requires_notification
            <=> Decision.autonomy_level
                    \in {"notification", "approval", "elevated_approval"}

\* a constraint-blocked decision that still reports approval and notification
C9_Witness ==
    /\ HasDecision
    /\ ~ Decision.allowed
    /\ Decision.autonomy_level = "approval"
    /\ Decision.requires_approval
    /\ Decision.requires_notification
    /\ Contains(Decision.constraints_applied, "constraints")

(* C10: when the operation is permitted (by base permission or escalation)   *)
(* and the profile's constraints block it, the decision has allowed=false,   *)
(* the resolved autonomy level (not prohibited by force), the constraint's   *)
(* reason as blocked_reason, and "constraints" last in constraints_applied.  *)
C10_ConstraintBlockedDecision ==
    (/\ HasDecision
     /\ CallPermitted
     /\ IsSet(profile.constraints)
     /\ check_constraints(profile, CallOperation, CallContext) # None)
        => /\ Decision.allowed = FALSE
           /\ Decision.autonomy_level
                = get_autonomy_level(profile, CallOperation,
                                     CallClassification)
           /\ Decision.blocked_reason
                = check_constraints(profile, CallOperation, CallContext)
           /\ Len(Decision.constraints_applied) >= 1
           /\ Decision.constraints_applied[Len(Decision.constraints_applied)]
                = "constraints"

\* an escalated operation blocked by the environment allow-list
C10_Witness ==
    /\ HasDecision
    /\ ~ Decision.allowed
    /\ Decision.autonomy_level = "notification"
    /\ Decision.blocked_reason = Some("Environment development not permitted")
    /\ Decision.constraints_applied = <<"emergency_escalation", "constraints">>

(* C11: when the operation is permitted, no constraint blocks it and the    *)
(* resolved autonomy level is prohibited, the decision has allowed=false,    *)
(* autonomy_level=prohibited and the reason "Operation prohibited by         *)
(* autonomy policy"; so no decision with allowed=true carries                *)
(* autonomy_level=prohibited.                                                *)
C11_ProhibitedIsDenied ==
    /\ (/\ HasDecision
        /\ CallPermitted
        /\ check_constraints(profile, CallOperation, CallContext) = None
        /\ get_autonomy_level(profile, CallOperation, CallClassification)
                = "prohibited")
            => (/\ Decision.allowed = FALSE
                /\ Decision.autonomy_level = "prohibited"
                /\ Decision.blocked_reason
                        = Some("Operation prohibited by autonomy policy"))
    /\ (HasDecision /\ Decision.allowed)
            => Decision.autonomy_level # "prohibited"

\* a base-permitted read that an override prohibits
C11_Witness ==
    /\ HasDecision
    /\ CallHasBasePermission
    /\ CallOperation = "R"
    /\ "prohibited" \in { Overrides[k] : k \in DOMAIN Overrides }
    /\ ~ Decision.allowed
    /\ Decision.autonomy_level = "prohibited"
    /\ Decision.blocked_reason
            = Some("Operation prohibited by autonomy policy")
    /\ Decision.constraints_applied = <<>>

(* C15: the evaluator never reads the clock: the decision of evaluate is     *)
(* determined by its arguments, so the same call made at any other           *)
(* wall-clock time gives the same decision, also when the context argument   *)
(* is omitted.                                                               *)
C15_DecisionIndependentOfClock ==
    HasDecision =>
        \A now \in Timestamps :
            evaluate(profile, CallOperation, CallClassification,
                     Get(call.args).context, Some(now)) = result

(* C17: get_effective_autonomy_matrix has an entry for every cell (4x5 on a  *)
(* 3D profile, the 5 operations on a 2D one) whatever the profile permits;   *)
(* each entry is the cell's override if there is one, else its default-table *)
(* entry, and it is the level evaluate reports for the cell whenever the     *)
(* operation passes the permission check.                                    *)
C17_MatrixCoversEveryCell ==
    /\ (HasMatrix /\ profile.is3d) =>
            /\ DOMAIN Matrix = DataClassification
            /\ \A c \in DataClassification :
                /\ DOMAIN Matrix[c] = Operation
                /\ \A o \in Operation :
                    Matrix[c][o]
                        = IF CellKey(c, o) \in DOMAIN Overrides
                            THEN Overrides[CellKey(c, o)]
                            ELSE DEFAULT_AUTONOMY_3D[c][o]
    /\ (HasMatrix /\ ~ profile.is3d) =>
            /\ DOMAIN Matrix = Operation
            /\ \A o \in Operation :
                Matrix[o]
                    = IF CellKey("-", o) \in DOMAIN Overrides
                        THEN Overrides[CellKey("-", o)]
                        ELSE DEFAULT_AUTONOMY_2D[o]
    /\ (HasDecision /\ CallPermitted) =>
            LET matrix == get_effective_autonomy_matrix(profile)
            IN  Decision.autonomy_level
                    = IF profile.is3d
                        THEN matrix[Get(CallClassification)][CallOperation]
                        ELSE matrix[CallOperation]

\* a profile that permits only public reads: the cells it does not permit
\* are in the matrix, with the override and the defaults
C17_Witness ==
    /\ HasMatrix
    /\ profile.is3d
    /\ DOMAIN profile.permissions = {"public"}
    /\ DOMAIN Overrides = {"public.C"}
    /\ Overrides["public.C"] = "autonomous"
    /\ Matrix["public"]["C"] = "autonomous"
    /\ Matrix["restricted"]["R"] = "approval"
    /\ Matrix["confidential"]["D"] = "prohibited"

\* a constructor has returned or raised
Constructed == pc = "constructed"

(* C12: evaluate raises an input error and returns no decision when a 3D     *)
(* profile is evaluated without a classification, or when the operation or   *)
(* classification string is not exactly one of the enum codes (no case       *)
(* folding, no trimming); a 2D profile evaluated without a classification    *)
(* is not an error.                                                          *)
C12_InvalidInputRaises ==
    (pc = "returned" /\ call.method = "evaluate") =>
        /\ result.raised
            <=> \/ profile.is3d /\ CallClassification = None
                \/ CallOperation \notin {"R", "M", "A", "C", "D"}
                \/ /\ CallClassification # None
                   /\ Get(CallClassification)
                        \notin {"public", "internal", "confidential",
                                 "restricted"}
        /\ result.raised => result.value = None
        /\ ~ result.raised
            => /\ result.value # None
               /\ Decision.operation = CallOperation
               /\ Decision.data_classification = CallClassification

\* a lower-case code is rejected on a 2D profile that grants the operation
C12_Witness ==
    /\ pc = "returned"
    /\ call.method = "evaluate"
    /\ ~ profile.is3d
    /\ "R" \in profile.permissions
    /\ CallOperation = "r"
    /\ CallClassification = None
    /\ result.raised
    /\ result.value = None
    /\ result.error = Some("'r' is not a valid Operation")

(* C16: a profile of either shape with empty permissions is rejected at      *)
(* construction: Profile2D with an empty operation list and Profile3D with   *)
(* an empty permissions map both raise.                                      *)
C16_EmptyPermissionsRejected ==
    /\ (Constructed /\ call.method = "Profile2D"
            /\ Get(call.args).permissions = {})
        => result.raised
    /\ (Constructed /\ call.method = "Profile3D"
            /\ DOMAIN Get(call.args).permissions = {})
        => result.raised

\* a caller's call has returned or raised and the caller has not taken it yet
Done(t) == frames[t].pc = "done"

\* what the call of a frame gives when it runs alone, start to end, on the
\* evaluator as it is
SequentialResult(c) ==
    CASE c.method = "evaluate" ->
            evaluate(profile, Get(c.args).operation,
                     Get(c.args).data_classification, Get(c.args).context,
                     Get(c.args).now)
      [] c.method = "get_effective_autonomy_matrix" ->
            Returned(get_effective_autonomy_matrix(profile))
      [] c.method = "get_all_permissions" ->
            Returned(get_all_permissions(profile))

(* C13: evaluating the same (operation, classification, context) on the same *)
(* evaluator again, in any order and interleaved with any other evaluations, *)
(* yields the same PolicyDecision: every result of a call equals every       *)
(* result the callers have taken, or are about to take, for the same         *)
(* arguments.                                                                *)
C13_SameCallSameDecision ==
    /\ \A e1 \in seen, e2 \in seen :
        e1.args = e2.args => e1.result = e2.result
    /\ \A t \in DOMAIN frames :
        (Done(t) /\ frames[t].call.method = "evaluate") =>
            /\ \A e \in seen :
                e.args = Get(frames[t].call.args)
                    => e.result = frames[t].result
            /\ \A u \in DOMAIN frames :
                (/\ Done(u)
                 /\ frames[u].call.method = "evaluate"
                 /\ frames[u].call.args = frames[t].call.args)
                    => frames[u].result = frames[t].result

\* an escalated change evaluated a second time, after a different evaluation
\* was taken and while the other caller is in the middle of a call
C13_Witness ==
    /\ Done("a")
    /\ frames["a"].call.method = "evaluate"
    /\ Get(frames["a"].call.args).operation = "C"
    /\ Get(frames["a"].result.value).allowed
    /\ [args |-> Get(frames["a"].call.args), result |-> frames["a"].result]
            \in seen
    /\ \E e \in seen : e.args # Get(frames["a"].call.args)
    /\ frames["b"].pc = "permitted"

(* C14: evaluate, get_all_permissions and get_effective_autonomy_matrix      *)
(* never modify the profile or any evaluator state, so under any             *)
(* interleaving of concurrent calls on one evaluator each call returns what  *)
(* it returns when run alone.                                                *)
C14_CallsLeaveEvaluatorUnchanged ==
    /\ [][profile' = profile]_vars
    /\ [](\A t \in DOMAIN frames :
            Done(t) => frames[t].result = SequentialResult(frames[t].call))

\* one caller has its decision while the other is between two steps of a
\* different evaluation, after an earlier call was taken
C14_Witness ==
    /\ Done("a")
    /\ frames["a"].call.method = "evaluate"
    /\ ~ frames["a"].result.raised
    /\ frames["b"].pc = "normalised"
    /\ Get(frames["b"].call.args) # Get(frames["a"].call.args)
    /\ seen # {}

\* the time_windows block of the profile of the call, and the local time of
\* the call's timestamp in its timezone
CallWindows == Get(Get(profile.constraints).time_windows)

CallLocalTime == AsTimezone(CallContext.timestamp, CallWindows.timezone)

HasWindows ==
    IsSet(profile.constraints) /\ IsSet(Get(profile.constraints).time_windows)

\* the four sub-checks, each on its own: would it fail for this call
EnvironmentFails ==
    /\ IsSet(profile.constraints)
    /\ IsSet(Get(profile.constraints).environments)
    /\ Get(Get(profile.constraints).environments) # {}
    /\ IsSet(CallContext.environment)
    /\ Get(CallContext.environment)
            \notin Get(Get(profile.constraints).environments)

AllowedDaysFails ==
    /\ HasWindows
    /\ IsSet(CallWindows.allowed_days)
    /\ Get(CallWindows.allowed_days) # {}
    /\ DayName(CallLocalTime) \notin Get(CallWindows.allowed_days)

\* the second of the day of the bounds these profiles use
ClockSecond(hhmm) ==
    CASE hhmm = "09:00" -> 32400
      [] hhmm = "17:00" -> 61200

\* the second of the day of the call's local time
CallSecondOfDay == CallLocalTime.minute * 60 + CallLocalTime.second

CallHours == Get(CallWindows.allowed_hours)

AllowedHoursFails ==
    /\ HasWindows
    /\ IsSet(CallWindows.allowed_hours)
    /\ \/ CallSecondOfDay < ClockSecond(CallHours.start)
       \/ CallSecondOfDay > ClockSecond(CallHours.end)

BlackoutDatesFails ==
    /\ HasWindows
    /\ IsSet(CallWindows.blackout_dates)
    /\ IsoDate(CallLocalTime) \in Get(CallWindows.blackout_dates)

(* C20: the constraint sub-checks run in the order environment,              *)
(* allowed_days, allowed_hours, blackout_dates and the blocked_reason is     *)
(* that of the first one that fails: when several would fail for the same    *)
(* context only the earliest in this order is reported; when none fails the  *)
(* constraints do not block.                                                 *)
C20_FirstFailingSubCheckReported ==
    (HasDecision /\ CallPermitted) =>
        IF EnvironmentFails
            THEN Decision.blocked_reason
                    = Some("Environment " \o Get(CallContext.environment)
                            \o " not permitted")
        ELSE IF AllowedDaysFails
            THEN Decision.blocked_reason
                    = Some("Operations not permitted on "
                            \o DayName(CallLocalTime))
        ELSE IF AllowedHoursFails
            THEN Decision.blocked_reason
                    = Some("Operations only permitted between "
                            \o CallHours.start \o " and " \o CallHours.end)
        ELSE IF BlackoutDatesFails
            THEN Decision.blocked_reason
                    = Some("Operations blocked on blackout date "
                            \o IsoDate(CallLocalTime))
        ELSE ~ Contains(Decision.constraints_applied, "constraints")

\* Saturday 6 January 20:00 UTC in production: the day, the hours and the
\* blackout date would each fail, and the day is what is reported
C20_Witness ==
    /\ HasDecision
    /\ CallPermitted
    /\ ~ EnvironmentFails
    /\ AllowedDaysFails
    /\ AllowedHoursFails
    /\ BlackoutDatesFails
    /\ CallWindows.timezone = "UTC"
    /\ Decision.blocked_reason = Some("Operations not permitted on saturday")
    /\ Decision.constraints_applied = <<"constraints">>

\* the call reaches the allowed_hours check: the operation is permitted, the
\* profile has allowed_hours, and neither the environment nor allowed_days
\* blocks
HoursCheckReached ==
    /\ HasDecision
    /\ CallPermitted
    /\ HasWindows
    /\ IsSet(CallWindows.allowed_hours)
    /\ ~ EnvironmentFails
    /\ ~ AllowedDaysFails

HoursReason ==
    Some("Operations only permitted between " \o CallHours.start \o " and "
            \o CallHours.end)

(* C21: with allowed_hours configured a local time-of-day t passes the hours *)
(* check exactly when start <= t <= end, both bounds inclusive; there is no  *)
(* wraparound, so when start is later than end every time of day is blocked. *)
C21_HoursInclusiveNoWraparound ==
    HoursCheckReached =>
        /\ Decision.blocked_reason # HoursReason
            <=> (/\ ClockSecond(CallHours.start) <= CallSecondOfDay
                 /\ CallSecondOfDay <= ClockSecond(CallHours.end))
        /\ ClockSecond(CallHours.start) > ClockSecond(CallHours.end)
            => (~ Decision.allowed /\ Decision.blocked_reason = HoursReason)

\* Monday 08:00:00 UTC is 17:00:00 in Tokyo, the end of 09:00 to 17:00: allowed
C21_Witness ==
    /\ HoursCheckReached
    /\ CallWindows.timezone = "Asia/Tokyo"
    /\ CallHours = [start |-> "09:00", end |-> "17:00"]
    /\ CallContext.timestamp = [day |-> 0, minute |-> 480, second |-> 0]
    /\ CallSecondOfDay = ClockSecond(CallHours.end)
    /\ Decision.allowed
    /\ Decision.blocked_reason = None

\* the decision is the environment check's block
EnvironmentBlocks ==
    /\ IsSet(CallContext.environment)
    /\ Decision.blocked_reason
        = Some("Environment " \o Get(CallContext.environment)
                \o " not permitted")

\* the constraints block configures neither environments nor time_windows
ConstraintsConfigureNothing ==
    /\ IsSet(profile.constraints)
    /\ Get(profile.constraints).environments = None
    /\ Get(profile.constraints).time_windows = None

\* the decision the same call gets from the profile without its constraints
DecisionWithoutConstraints ==
    Decide([profile EXCEPT !.constraints = None], CallOperation,
           CallClassification, CallContext)

(* C22, as stated: the environment check blocks exactly when                 *)
(* constraints.environments is set, context.environment is set and the       *)
(* environment is not a member of the allow-list; a context with no          *)
(* environment passes for every allow-list, and a constraints block with no  *)
(* environments and no time_windows never changes a decision.                *)
C22_EnvironmentBlocksExactlyWhenSet ==
    HasDecision =>
        /\ CallPermitted =>
            (EnvironmentBlocks
                <=> (/\ IsSet(profile.constraints)
                     /\ IsSet(Get(profile.constraints).environments)
                     /\ IsSet(CallContext.environment)
                     /\ Get(CallContext.environment)
                            \notin Get(Get(profile.constraints).environments)))
        /\ ~ IsSet(CallContext.environment) => ~ EnvironmentBlocks
        /\ ConstraintsConfigureNothing => Decision = DecisionWithoutConstraints

(* C22, amended: the environment check blocks exactly when                   *)
(* constraints.environments is set and not empty, context.environment is set *)
(* and the environment is not a member of the allow-list; an absent or empty *)
(* allow-list never restricts, a context with no environment passes for      *)
(* every allow-list, and a constraints block with no environments and no     *)
(* time_windows never changes a decision.                                    *)
C22_EnvironmentBlocksExactlyWhenListed ==
    HasDecision =>
        /\ CallPermitted => (EnvironmentBlocks <=> EnvironmentFails)
        /\ ~ IsSet(CallContext.environment) => ~ EnvironmentBlocks
        /\ ConstraintsConfigureNothing => Decision = DecisionWithoutConstraints

\* development against the allow-list production, staging: blocked, whatever
\* the time windows say
C22_Witness ==
    /\ HasDecision
    /\ CallPermitted
    /\ Get(profile.constraints).environments
        = Some({"production", "staging"})
    /\ CallContext.environment = Some("development")
    /\ ~ Decision.allowed
    /\ Decision.blocked_reason = Some("Environment development not permitted")
    /\ Decision.constraints_applied = <<"constraints">>

\* evaluate was called on a 3D profile for a classification that its
\* permissions map has no key for
MissingClassificationKey ==
    /\ pc = "returned"
    /\ call.method = "evaluate"
    /\ profile.is3d
    /\ IsSet(CallClassification)
    /\ Get(CallClassification) \in DataClassification
    /\ Get(CallClassification) \notin DOMAIN profile.permissions

NotPermittedDenial ==
    /\ ~ Decision.allowed
    /\ Decision.autonomy_level = "prohibited"
    /\ Decision.blocked_reason
        = Some("Operation " \o CallOperation
                \o " not permitted for this profile")
    /\ Decision.constraints_applied = <<>>

(* C23: on a 3D profile whose permissions map lacks a classification key,    *)
(* evaluating any operation on that classification is not an error: the     *)
(* missing key counts as the empty permission set and the result is a        *)
(* not-permitted denial, unless emergency escalation grants the operation.   *)
C23_MissingKeyIsEmptySet ==
    MissingClassificationKey =>
        /\ ~ result.raised
        /\ \/ NotPermittedDenial
           \/ Contains(Decision.constraints_applied, "emergency_escalation")
        /\ ~ CallContext.emergency_active => NotPermittedDenial
        /\ ~ CallInEscalatedPermissions => NotPermittedDenial

\* a profile with the single key public, asked for a read of internal data
C23_Witness ==
    /\ MissingClassificationKey
    /\ profile.permissions = [public |-> {"R"}]
    /\ CallOperation = "R"
    /\ CallClassification = Some("internal")
    /\ ~ result.raised
    /\ NotPermittedDenial

\* caller t has its get_all_permissions result in hand
HasAllPermissions(t) ==
    Done(t) /\ frames[t].call.method = "get_all_permissions"

AllPermissions(t) == Get(frames[t].result.value)

(* C24: get_all_permissions agrees with evaluate's base permission check:    *)
(* for a 3D profile operation o is listed under classification c exactly     *)
(* when o is in the profile's granted set for c, and classifications absent  *)
(* from the profile are absent from the result; for a 2D profile the result  *)
(* has the single key "default" whose list is exactly the granted            *)
(* operations.                                                               *)
C24_AllPermissionsMatchBaseCheck ==
    \A t \in DOMAIN frames :
        HasAllPermissions(t) =>
            /\ ~ frames[t].result.raised
            /\ IF profile.is3d
                THEN /\ DOMAIN AllPermissions(t) = DOMAIN profile.permissions
                     /\ \A c \in DataClassification, o \in Operation :
                            (/\ c \in DOMAIN AllPermissions(t)
                             /\ o \in AllPermissions(t)[c])
                                <=> HasBasePermission(profile, o, Some(c))
                ELSE /\ DOMAIN AllPermissions(t) = {"default"}
                     /\ \A o \in Operation :
                            o \in AllPermissions(t).default
                                <=> HasBasePermission(profile, o, None)

\* the 3D profile with the single key public: only that key is listed
C24_Witness ==
    \E t \in DOMAIN frames :
        /\ HasAllPermissions(t)
        /\ profile.is3d
        /\ profile.permissions = [public |-> {"R"}]
        /\ AllPermissions(t) = [public |-> {"R"}]

\* the operation is granted by escalation alone
GrantedSolelyByEscalation ==
    HasDecision /\ CallPermitted /\ ~ CallHasBasePermission

\* the profile with the operation added to the base permissions of the
\* call's cell, and nothing else changed
BaseGrantingProfile ==
    IF profile.is3d
        THEN [profile EXCEPT !.permissions =
                [c \in DOMAIN profile.permissions
                        \cup {Get(CallClassification)} |->
                    IF c = Get(CallClassification)
                        THEN DictGet(profile.permissions, c)
                                \cup {CallOperation}
                        ELSE profile.permissions[c]]]
        ELSE [profile EXCEPT !.permissions = @ \cup {CallOperation}]

\* what the same call gets when the operation is base-permitted
BasePermittedDecision ==
    Decide(BaseGrantingProfile, CallOperation, CallClassification,
           CallContext)

(* C25: emergency escalation only replaces the base permission check: an     *)
(* operation granted solely by escalation is still denied when its resolved  *)
(* autonomy level is prohibited or when a constraint blocks it, and its      *)
(* autonomy_level, requires_approval and requires_notification are those of  *)
(* a base-permitted operation on the same cell.                              *)
C25_EscalationKeepsLaterSteps ==
    GrantedSolelyByEscalation =>
        /\ get_autonomy_level(profile, CallOperation, CallClassification)
                = "prohibited"
            => ~ Decision.allowed
        /\ IsSet(check_constraints(profile, CallOperation, CallContext))
            => (/\ ~ Decision.allowed
                /\ Contains(Decision.constraints_applied, "constraints"))
        /\ Decision.allowed = BasePermittedDecision.allowed
        /\ Decision.autonomy_level = BasePermittedDecision.autonomy_level
        /\ Decision.requires_approval
            = BasePermittedDecision.requires_approval
        /\ Decision.requires_notification
            = BasePermittedDecision.requires_notification
        /\ Decision.blocked_reason = BasePermittedDecision.blocked_reason

\* a change escalated in an emergency on a cell overridden to prohibited
C25_Witness ==
    /\ GrantedSolelyByEscalation
    /\ CallOperation = "C"
    /\ CallContext.emergency_active
    /\ Decision.constraints_applied = <<"emergency_escalation">>
    /\ Decision.autonomy_level = "prohibited"
    /\ ~ Decision.allowed
    /\ Decision.blocked_reason
        = Some("Operation prohibited by autonomy policy")
    /\ BasePermittedDecision.constraints_applied = <<>>

\* one of the constraint sub-checks fails for the call
ConstraintFails ==
    \/ EnvironmentFails
    \/ AllowedDaysFails
    \/ AllowedHoursFails
    \/ BlackoutDatesFails

\* the reasons the constraint sub-checks give for the call
ConstraintReasons ==
    (IF IsSet(CallContext.environment)
        THEN { Some("Environment " \o Get(CallContext.environment)
                        \o " not permitted") }
        ELSE {})
    \cup
    (IF HasWindows
        THEN { Some("Operations not permitted on " \o DayName(CallLocalTime)),
               Some("Operations blocked on blackout date "
                        \o IsoDate(CallLocalTime)) }
        ELSE {})
    \cup
    (IF HasWindows /\ IsSet(CallWindows.allowed_hours)
        THEN { HoursReason }
        ELSE {})

(* C26: the constraint check takes precedence over the prohibited check:     *)
(* when a permitted operation's resolved autonomy is prohibited and a        *)
(* constraint also blocks it, blocked_reason is the constraint's reason,     *)
(* never "Operation prohibited by autonomy policy", and constraints_applied  *)
(* contains "constraints".                                                   *)
C26_ConstraintBeforeProhibited ==
    (/\ HasDecision
     /\ CallPermitted
     /\ get_autonomy_level(profile, CallOperation, CallClassification)
            = "prohibited"
     /\ ConstraintFails)
        => /\ ~ Decision.allowed
           /\ Decision.blocked_reason
                # Some("Operation prohibited by autonomy policy")
           /\ Decision.blocked_reason \in ConstraintReasons
           /\ Contains(Decision.constraints_applied, "constraints")
           /\ Decision.autonomy_level = "prohibited"

\* a read overridden to prohibited, asked for on the blackout date
C26_Witness ==
    /\ HasDecision
    /\ CallHasBasePermission
    /\ CallOperation = "R"
    /\ get_autonomy_level(profile, CallOperation, CallClassification)
            = "prohibited"
    /\ ~ EnvironmentFails
    /\ BlackoutDatesFails
    /\ Decision.blocked_reason
        = Some("Operations blocked on blackout date 2024-01-02")
    /\ Decision.constraints_applied = <<"constraints">>
    /\ Decision.autonomy_level = "prohibited"

C28_ReasonExactlyOnDenial ==
    HasDecision =>
        /\ Decision.blocked_reason = None <=> Decision.allowed
        /\ ~ Decision.allowed => Get(Decision.blocked_reason) # ""

\* a delete of restricted data on the basic 3D profile: denied, with a reason
C28_Witness ==
    /\ HasDecision
    /\ profile.is3d
    /\ CallOperation = "D"
    /\ CallClassification = Some("restricted")
    /\ ~ CallContext.emergency_active
    /\ ~ Decision.allowed
    /\ Decision.blocked_reason
        = Some("Operation D not permitted for this profile")

\* the decision of the same call with the classification left out
DecisionWithoutClassification ==
    Decide(profile, CallOperation, None, CallContext)

(* C29: on a 2D profile a supplied classification has no effect on the       *)
(* outcome: allowed, autonomy_level, requires_approval,                      *)
(* requires_notification, blocked_reason and constraints_applied are the     *)
(* same with any classification as with none, and the classification is only *)
(* echoed in data_classification, which is absent when none was supplied.    *)
C29_ClassificationIgnoredOn2D ==
    (HasDecision /\ ~ profile.is3d) =>
        /\ Decision.allowed = DecisionWithoutClassification.allowed
        /\ Decision.autonomy_level
            = DecisionWithoutClassification.autonomy_level
        /\ Decision.requires_approval
            = DecisionWithoutClassification.requires_approval
        /\ Decision.requires_notification
            = DecisionWithoutClassification.requires_notification
        /\ Decision.blocked_reason
            = DecisionWithoutClassification.blocked_reason
        /\ Decision.constraints_applied
            = DecisionWithoutClassification.constraints_applied
        /\ Decision.data_classification = CallClassification
        /\ DecisionWithoutClassification.data_classification = None

\* a change on a 2D profile that overrides C, asked for restricted data
C29_Witness ==
    /\ HasDecision
    /\ ~ profile.is3d
    /\ CallClassification = Some("restricted")
    /\ CallOperation = "C"
    /\ CallPermitted
    /\ IsSet(profile.autonomy_overrides)
    /\ "C" \in DOMAIN Get(profile.autonomy_overrides)
    /\ Decision.autonomy_level = Get(profile.autonomy_overrides)["C"]
    /\ Decision.data_classification = Some("restricted")

\* validate_tool_access has returned or raised
ValidateReturned == pc = "returned" /\ call.method = "validate_tool_access"

AccessArgs == Get(call.args)

\* the tool the call is about is registered, under its normalised id
AccessRegistered == NormaliseToolId(AccessArgs.tool_id) \in DOMAIN registry.tools

AccessTool == registry.tools[NormaliseToolId(AccessArgs.tool_id)]

\* the codes of allowed_levels, read without regard to case or blanks
AccessLevels ==
    { UpperStrip(AccessArgs.allowed_levels[i]) :
        i \in 1..Len(AccessArgs.allowed_levels) }

AccessLevelsValid == AccessLevels \subseteq {"R", "M", "A", "C", "D"}

AccessTierValid ==
    \/ AccessArgs.data_tier = None
    \/ LowerStrip(Get(AccessArgs.data_tier))
            \in {"public", "internal", "confidential", "restricted"}

\* public < internal < confidential < restricted
TierRank(tier) ==
    CASE tier = "public" -> 1
      [] tier = "internal" -> 2
      [] tier = "confidential" -> 3
      [] tier = "restricted" -> 4

\* the tool's data_access, if both it and data_tier are given, is not higher
\* than data_tier
AccessTierNotExceeded ==
    (AccessArgs.data_tier # None /\ AccessTool.data_access # None)
        => /\ AccessTierValid
           /\ TierRank(Get(AccessTool.data_access))
                <= TierRank(LowerStrip(Get(AccessArgs.data_tier)))

\* the four conditions of the claim
AccessConditions ==
    /\ AccessRegistered
    /\ AccessTool.rmacd_level \in AccessLevels
    /\ AccessTierNotExceeded
    /\ AccessTool.required_hitl # Some("prohibited")

(* C18, as stated: validate_tool_access returns allowed=true exactly when    *)
(* the tool is registered, its level is in allowed_levels, its data_access   *)
(* (if both it and data_tier are given) is not higher than data_tier and its *)
(* required_hitl is not prohibited; in every other case it returns           *)
(* allowed=false with a reason.                                              *)
C18_AllowedExactlyWhen ==
    ValidateReturned =>
        /\ ~ result.raised
        /\ Get(result.value).allowed <=> AccessConditions
        /\ ~ Get(result.value).allowed => Get(result.value).reason # ""

\* the call meets an invalid code: an entry of allowed_levels of a registered
\* tool, or the data_tier once the level check has passed
AccessMeetsInvalidCode ==
    /\ AccessRegistered
    /\ \/ ~ AccessLevelsValid
       \/ AccessTool.rmacd_level \in AccessLevels /\ ~ AccessTierValid

(* C18, amended: validate_tool_access returns allowed=true exactly when the  *)
(* tool is registered, every entry of allowed_levels and a given data_tier   *)
(* is a valid code, its level is in allowed_levels, its data_access (if both *)
(* given) is not higher than data_tier and its required_hitl is not          *)
(* prohibited.  When the call meets an invalid code the standalone registry  *)
(* returns allowed=false with a "Validation error" reason and the SDK        *)
(* registry raises; in every other case allowed=false with a reason.         *)
C18_AllowedExactlyWhenValid ==
    ValidateReturned =>
        /\ result.raised
            <=> (registry.impl = "sdk" /\ AccessMeetsInvalidCode)
        /\ ~ result.raised =>
            /\ Get(result.value).allowed
                <=> (/\ AccessConditions
                     /\ AccessLevelsValid
                     /\ AccessTierValid)
            /\ ~ Get(result.value).allowed => Get(result.value).reason # ""
            /\ AccessMeetsInvalidCode =>
                Get(result.value).reason
                    \in {"Validation error: Invalid RMACD code: X. "
                            \o "Valid codes: R, M, A, C, D",
                         "Validation error: Invalid data classification: "
                            \o "bogus. Valid codes: public, internal, "
                            \o "confidential, restricted"}

\* a read tool on confidential data, asked for with the internal tier
C18_Witness ==
    /\ ValidateReturned
    /\ AccessArgs.tool_id = "data_tool"
    /\ AccessArgs.allowed_levels = <<"r", "D">>
    /\ AccessArgs.data_tier = Some("internal")
    /\ AccessRegistered
    /\ AccessTool.data_access = Some("confidential")
    /\ result.value
        = Some([allowed |-> FALSE,
                reason |-> "Tool requires confidential data access, "
                            \o "but only internal allowed"])

\* a tool dict that register_tool accepts
SampleToolDict ==
    ToolDict(Some("read_tool"), Some("Read Tool"), Some("R"), None, None)

(* C19: a register_tool call that fails raises and leaves the registry as it *)
(* was: the tool map, the per-level index and the audit log are those of     *)
(* before the call, and the registry still registers a valid tool.           *)
C19_FailedRegisterLeavesRegistry ==
    [][(/\ pc' = "returned"
        /\ call'.method = "register_tool"
        /\ result'.raised)
            => (/\ registry' = registry
                /\ result'.value = None
                /\ register_tool(registry', SampleToolDict).result
                        = Returned(TRUE))]_vars

\* {"invalid": "data"} offered to a registry that holds a tool
C19_Witness ==
    /\ pc = "returned"
    /\ call.method = "register_tool"
    /\ result.raised
    /\ result.error
        = Some("Missing required fields: tool_id, tool_name, rmacd_level")
    /\ DOMAIN registry.tools # {}
    /\ Len(registry.audit_log) = 1

\* the registered tools whose level is L
ToolsAtLevel(L) ==
    { registry.tools[id] :
        id \in { x \in DOMAIN registry.tools :
                    registry.tools[x].rmacd_level = L } }

RECURSIVE SumOver(_, _)
\* the sum of counts[k] over the keys
SumOver(counts, keys) ==
    IF keys = {}
        THEN 0
        ELSE LET k == CHOOSE x \in keys : TRUE
             IN  counts[k] + SumOver(counts, keys \ {k})

(* C30: after any sequence of register_tool calls, including re-registering  *)
(* an existing tool_id with a different RMACD level, the per-level index     *)
(* matches the tool map: get_tools_by_level(L) returns exactly the           *)
(* registered tools whose level is L, and the by_level counts of get_stats   *)
(* sum to total_tools with by_level[L] the number of registered tools at     *)
(* level L.                                                                  *)
C30_IndexMatchesToolMap ==
    /\ (/\ pc = "returned"
        /\ call.method = "get_tools_by_level"
        /\ UpperStrip(Get(call.args).rmacd_level) \in Operation)
            => result
                = Returned(ToolsAtLevel(UpperStrip(Get(call.args).rmacd_level)))
    /\ (pc = "returned" /\ call.method = "get_stats")
            => LET stats == Get(result.value)
               IN  /\ stats.total_tools = Cardinality(DOMAIN registry.tools)
                   /\ SumOver(stats.by_level, DOMAIN stats.by_level)
                        = stats.total_tools
                   /\ \A L \in Operation :
                        stats.by_level[L] = Cardinality(ToolsAtLevel(L))

=============================================================================
